---- MODULE Spec2Model ----
(***************************************************************************)
(* Upstream dispatchers of the proxy: the retry / rotation loops of        *)
(*   handle_chat_completions, handle_completions  (handlers/openai.rs)     *)
(*   handle_messages                              (handlers/claude.rs)     *)
(*   handle_generate                              (handlers/gemini.rs)     *)
(* with the account pool they call, the upstream they talk to and the      *)
(* client they answer.  One request is in flight at a time; the pool       *)
(* changes concurrently (accounts are added, rate-limit windows expire).   *)
(***************************************************************************)
EXTENDS Integers, Sequences, FiniteSets, TLC

\* ------------------------------------------------------------------ bounds
MaxPool == 3            \* largest number of accounts in the pool
MaxChunks == 3          \* items one mapped stream yields at most
MaxLines == 4           \* lines one upstream SSE body has at most
MaxSent == 4            \* upstream calls followed at most
MaxN == 3               \* largest n of an image request
MaxTokens == 3          \* pieces of text one upstream line has at most
MaxSuffixes == 2        \* suffixes a model name has at most
MaxTools == 2           \* tools a request declares at most
MaxMessages == 2        \* messages a Claude request has at most
MaxUpdates == 2         \* update_proxy calls followed at most
MaxDuration == 4         \* characters of a duration string
MaxAttempts == 3         \* max_attempts given to call_v1_internal_with_retry
MaxItems == 3            \* items of a Codex input array
MaxBytes == 4            \* pieces of an upstream body

\* --------------------------------------------------------------- constants
MAX_RETRY_ATTEMPTS == 3
HINT_BUFFER_MS == 200
HINT_CAP_MS == 10000
PEEK_TIMEOUT_S == 60

Handlers == {"chat", "completions", "claude", "gemini"}
OpenAIHandlers == {"chat", "completions"}

Accounts == 1..MaxPool
NoAccount == 0          \* Option<String>::None for an email / Err of get_token
NoHint == -1            \* Option<u64>::None of parse_retry_delay

Min(a, b) == IF a < b THEN a ELSE b
Max(a, b) == IF a > b THEN a ELSE b
RECURSIVE Pow2(_)
Pow2(n) == IF n = 0 THEN 1 ELSE 2 * Pow2(n - 1)

\* ---------------------------------------------------------- upstream bodies
\* An error body is the text read by response.text(); the handlers look at
\* three things in it: the retry hint, the token QUOTA_EXHAUSTED and the
\* (case-sensitive) word quota.
Body(h, qe, q) == [retryDelay |-> h, QUOTA_EXHAUSTED |-> qe, quota |-> q]
PlainBody == Body(NoHint, FALSE, FALSE)

\* parse_retry_delay: Some(ms) when the body carries a parsable hint
parse_retry_delay(error_text) == error_text.retryDelay

contains_QUOTA_EXHAUSTED(error_text) == error_text.QUOTA_EXHAUSTED
contains_quota(error_text) == error_text.quota

\* status 0 stands for Err(e) of call_v1_internal (transport failure)
Outcome(s, b, j) == [status |-> s, body |-> b, json_ok |-> j]
NetworkError == Outcome(0, PlainBody, FALSE)

UpstreamOutcomes ==
    { NetworkError,
      Outcome(200, PlainBody, TRUE),
      Outcome(200, PlainBody, FALSE),
      Outcome(429, PlainBody, FALSE),
      Outcome(429, Body(300, FALSE, FALSE), FALSE),
      Outcome(429, Body(NoHint, TRUE, FALSE), FALSE),
      Outcome(429, Body(300, TRUE, FALSE), FALSE),
      Outcome(429, Body(NoHint, FALSE, TRUE), FALSE),
      Outcome(500, PlainBody, FALSE),
      Outcome(503, PlainBody, FALSE),
      Outcome(529, PlainBody, FALSE),
      Outcome(401, PlainBody, FALSE),
      Outcome(403, PlainBody, FALSE),
      Outcome(404, PlainBody, FALSE),
      Outcome(400, PlainBody, FALSE) }

is_success(status) == status >= 200 /\ status <= 299

\* ------------------------------------------------------------------- state
VARIABLES
    pool,           \* token manager: the accounts, in order
    limited,        \* token manager: accounts inside a rate-limit window
    cursor,         \* token manager: round-robin cursor (0-based)
    sticky,         \* token manager: account bound to the session, or NoAccount
    pc,             \* position of the request task
    handler,        \* which dispatcher serves the request
    is_stream,      \* the request asks for SSE
    pool_size,      \* handler local: token_manager.len() before the loop
    max_attempts,   \* handler local
    attempt,        \* handler local: loop index
    email,          \* handler local: account of the current attempt
    last_email,     \* handler local (openai.rs)
    last_error,     \* handler local
    yielded,        \* number of items the mapped stream of this attempt
                    \* has yielded (the n-th item has id n)
    first_data_chunk, \* handler local of the peek
    peek_elapsed,   \* seconds since the running peek loop began (0 outside it)
    delivered,      \* chunks the client has received
    client,         \* the response returned to the client
    picks,          \* number of get_token calls of the request
    calls,          \* number of upstream calls of the request
    log             \* what the request did in the current attempt and the
                    \* one before it, in order

\* the Claude stream translator (mappers/claude/mod.rs), one stream at a time
VARIABLES
    state,          \* StreamingState of the stream being translated
    claude_out,     \* what create_claude_sse_stream has yielded, in order
    claude_pc,      \* "open" while the while-let loop runs, then "closed"
    claude_lines    \* number of upstream lines consumed

\* the bodies sent upstream (UpstreamClient::call_v1_internal)
VARIABLES
    sent,           \* the bodies handed to call_v1_internal, in order
    uuids           \* number of values Uuid::new_v4() has produced

\* the Gemini stream translator (the stream! block of handle_generate)
VARIABLES
    gemini_buffer,  \* buffer: the bytes received after the last newline
    gemini_step,    \* the line the last newline completed and what was yielded
                    \* for it (forgotten when the next bytes arrive)
    gemini_lines,   \* number of non-blank lines completed so far
    gemini_events,  \* number of Ok items yielded so far
    gemini_pc       \* "open" while response_stream yields, then "closed"

\* the request configuration (mappers/common_utils.rs)
VARIABLES
    resolved        \* the last call of resolve_request_config: its arguments
                    \* and the RequestConfig it returned (config is <<>>
                    \* before the first call)

\* the tools of a request (inject_google_search_tool, transform_claude_request_in)
VARIABLES
    injection,      \* a body given to inject_google_search_tool, and the body
                    \* after one and after two calls
    claude_tools    \* a Claude request and the tools of the inner request
                    \* transform_claude_request_in made of it

\* the contents of a Claude request (build_contents)
VARIABLES
    built           \* a call of build_contents: the messages, whether thinking
                    \* is enabled, and the contents it returned

\* the image handlers (handle_images_generations, handle_images_edits)
VARIABLES
    img_pc,         \* "idle", "gather" (tasks spawned, results collected), "done"
    img_req,        \* the handler, n and response_format of the request
    img_tasks,      \* the result of every spawned task, "running" until it ends
    img_idx,        \* number of tasks the collecting loop has awaited
    img_images,     \* images: the <<task, part>> pushed, in order
    img_errors,     \* errors.len()
    img_response    \* the response: status (0: none yet) and data

\* the HTTP client factory (modules/http_client.rs)
VARIABLES
    factory,        \* for every handle of the factory, the cell its Arc points to
                    \* (0: the handle is not made yet)
    proxy_config,   \* for every cell, the configuration in it: host and port
    rw_lock,        \* for every cell, the RwLock: the readers and the writer in it
    build_pc,       \* for every build_client call, where it is
    build_cfg,      \* for every build_client call, the update_proxy calls that
                    \* had returned when it started, and the host and port it read
    update_pc,      \* for every update_proxy call, where it is
    update_cfg,     \* for every update_proxy call, the configuration it writes
    updates,        \* number of update_proxy calls that have taken the lock
    returned        \* the latest configuration whose update_proxy has returned

\* the model route of a request (resolve_model_route in the handlers)
VARIABLES
    custom_mapping,     \* AppState: the three mapping tables, each a set of
    openai_mapping,     \* pairs <<client model, upstream model>>
    anthropic_mapping,
    route_pc,           \* "idle", "attempt" (inside the retry loop), "done"
    route_req,          \* the handler and the attempts the request may make
    route_attempt,      \* loop index
    route_mapped,       \* mapped_model of the OpenAI handlers (resolved before the loop)
    route_sent          \* for every attempt made, the model and requestType sent

\* the Responses / Codex shape of a body (handle_chat_completions, handle_completions)
VARIABLES
    normalized      \* a body a handler received and the messages of the
                    \* OpenAIRequest it made of it (status 400: rejected)

\* the upstream client (proxy/upstream/client.rs)
VARIABLES
    duration,         \* a call of parse_duration_ms: the string and the result
    rc_pc,          \* call_v1_internal_with_retry: "idle", "loop", "done"
    rc_max,         \* max_attempts
    rc_creds,       \* the get_credentials closure the caller gave
    rc_given,       \* number of credentials the closure has handed out
    rc_attempt,     \* loop index
    rc_calls,       \* the upstream calls made, in order: account, status,
                    \* body, parsed delay and the time slept after the response
    rc_result       \* what the function returned (None while it runs)

\* the Codex input items of a body (handle_completions)
VARIABLES
    codex           \* an input array handle_completions received and the
                    \* messages it made of its items

\* saving the proxy settings (commands/network_proxy.rs)
VARIABLES
    save_pc,        \* save_proxy_settings: "idle", the step it is about to
                    \* run ("validate", "test", "update", "load", "persist"), "done"
    save_settings,  \* its argument
    save_trace,     \* the steps it has run, in order
    save_result,    \* "running", "ok", or the step whose error it returned
    live_config,    \* the proxy configuration in the client factory
    file_config,    \* network_proxy in the configuration file
    live_before,    \* the two as they were when the call began
    file_before

\* the line buffer of the stream translators (create_claude_sse_stream and
\* the stream! block of handle_generate)
VARIABLES
    ck_pc,          \* "idle", "open" (the while-let loop runs), "closed"
    ck_which,       \* the translator: "claude" or "gemini"
    ck_received,    \* all bytes the upstream stream has yielded, in order
    ck_chunks,      \* number of chunks they came in
    ck_buffer,      \* buffer
    ck_state,       \* StreamingState (Claude)
    ck_out          \* what the translator has yielded, in order

tm_vars == <<pool, limited, cursor, sticky>>
dispatcher_vars ==
        <<pool, limited, cursor, sticky, pc, handler, is_stream, pool_size, max_attempts,
          attempt, email, last_email, last_error, yielded, first_data_chunk,
          peek_elapsed, delivered, client, picks, calls, log>>
claude_vars == <<state, claude_out, claude_pc, claude_lines>>
envelope_vars == <<sent, uuids>>
gemini_vars == <<gemini_buffer, gemini_step, gemini_lines, gemini_events, gemini_pc>>
mapper_vars == <<resolved>>
tools_vars == <<injection, claude_tools>>
contents_vars == <<built>>
images_vars == <<img_pc, img_req, img_tasks, img_idx, img_images, img_errors, img_response>>
factory_vars == <<factory, proxy_config, rw_lock, build_pc, build_cfg, update_pc, update_cfg, updates, returned>>
route_vars == <<custom_mapping, openai_mapping, anthropic_mapping, route_pc, route_req, route_attempt, route_mapped, route_sent>>
norm_vars == <<normalized>>
client_vars == <<duration, rc_pc, rc_max, rc_creds, rc_given, rc_attempt, rc_calls, rc_result>>
codex_vars == <<codex>>
save_vars == <<save_pc, save_settings, save_trace, save_result, live_config, file_config, live_before, file_before>>
chunks_vars == <<ck_pc, ck_which, ck_received, ck_chunks, ck_buffer, ck_state, ck_out>>
outside_dispatcher == <<claude_vars, envelope_vars, gemini_vars, mapper_vars, tools_vars, contents_vars, images_vars, factory_vars, route_vars, norm_vars, client_vars, codex_vars, save_vars, chunks_vars>>
outside_claude == <<dispatcher_vars, envelope_vars, gemini_vars, mapper_vars, tools_vars, contents_vars, images_vars, factory_vars, route_vars, norm_vars, client_vars, codex_vars, save_vars, chunks_vars>>
outside_envelope == <<dispatcher_vars, claude_vars, gemini_vars, mapper_vars, tools_vars, contents_vars, images_vars, factory_vars, route_vars, norm_vars, client_vars, codex_vars, save_vars, chunks_vars>>
outside_gemini == <<dispatcher_vars, claude_vars, envelope_vars, mapper_vars, tools_vars, contents_vars, images_vars, factory_vars, route_vars, norm_vars, client_vars, codex_vars, save_vars, chunks_vars>>
outside_mapper == <<dispatcher_vars, claude_vars, envelope_vars, gemini_vars, tools_vars, contents_vars, images_vars, factory_vars, route_vars, norm_vars, client_vars, codex_vars, save_vars, chunks_vars>>
outside_tools == <<dispatcher_vars, claude_vars, envelope_vars, gemini_vars, mapper_vars, contents_vars, images_vars, factory_vars, route_vars, norm_vars, client_vars, codex_vars, save_vars, chunks_vars>>
outside_contents == <<dispatcher_vars, claude_vars, envelope_vars, gemini_vars, mapper_vars, tools_vars, images_vars, factory_vars, route_vars, norm_vars, client_vars, codex_vars, save_vars, chunks_vars>>
outside_images == <<dispatcher_vars, claude_vars, envelope_vars, gemini_vars, mapper_vars, tools_vars, contents_vars, factory_vars, route_vars, norm_vars, client_vars, codex_vars, save_vars, chunks_vars>>
outside_factory == <<dispatcher_vars, claude_vars, envelope_vars, gemini_vars, mapper_vars, tools_vars, contents_vars, images_vars, route_vars, norm_vars, client_vars, codex_vars, save_vars, chunks_vars>>
outside_route == <<dispatcher_vars, claude_vars, envelope_vars, gemini_vars, mapper_vars, tools_vars, contents_vars, images_vars, factory_vars, norm_vars, client_vars, codex_vars, save_vars, chunks_vars>>
outside_norm == <<dispatcher_vars, claude_vars, envelope_vars, gemini_vars, mapper_vars, tools_vars, contents_vars, images_vars, factory_vars, route_vars, client_vars, codex_vars, save_vars, chunks_vars>>
outside_client == <<dispatcher_vars, claude_vars, envelope_vars, gemini_vars, mapper_vars, tools_vars, contents_vars, images_vars, factory_vars, route_vars, norm_vars, codex_vars, save_vars, chunks_vars>>
outside_codex == <<dispatcher_vars, claude_vars, envelope_vars, gemini_vars, mapper_vars, tools_vars, contents_vars, images_vars, factory_vars, route_vars, norm_vars, client_vars, save_vars, chunks_vars>>
outside_save == <<dispatcher_vars, claude_vars, envelope_vars, gemini_vars, mapper_vars, tools_vars, contents_vars, images_vars, factory_vars, route_vars, norm_vars, client_vars, codex_vars, chunks_vars>>
outside_chunks == <<dispatcher_vars, claude_vars, envelope_vars, gemini_vars, mapper_vars, tools_vars, contents_vars, images_vars, factory_vars, route_vars, norm_vars, client_vars, codex_vars, save_vars>>
vars == <<dispatcher_vars, claude_vars, envelope_vars, gemini_vars, mapper_vars, tools_vars, contents_vars, images_vars, factory_vars, route_vars, norm_vars, client_vars, codex_vars, save_vars, chunks_vars>>

NoResponse == [status |-> 0, body |-> [text |-> ""], email |-> 0]
NoError == [kind |-> "none"]
NoChunk == [kind |-> "none", id |-> 0]

\* ----------------------------------------------------------- token manager
\* TokenManager::len
TokenManagerLen == Len(pool)

\* the accounts in scan order, starting at the cursor
ScanOrder == [i \in 1..Len(pool) |-> pool[((cursor + i - 1) % Len(pool)) + 1]]

RECURSIVE FirstUsable(_, _)
FirstUsable(order, i) ==
    IF i > Len(order) THEN 0
    ELSE IF order[i] \notin limited THEN i
    ELSE FirstUsable(order, i + 1)

\* TokenManager::get_token(request_type, force_rotate, session_id, model):
\* the sticky binding when usable and not forced, else the first usable
\* account from the cursor; NoAccount when none is usable.
StickyUsable(force_rotate, has_session) ==
    has_session /\ ~force_rotate /\ sticky # NoAccount /\ sticky \notin limited

get_token_result(force_rotate, has_session) ==
    IF StickyUsable(force_rotate, has_session) THEN sticky
    ELSE IF Len(pool) = 0 THEN NoAccount
    ELSE IF FirstUsable(ScanOrder, 1) = 0 THEN NoAccount
    ELSE ScanOrder[FirstUsable(ScanOrder, 1)]

get_token_cursor(force_rotate, has_session) ==
    IF StickyUsable(force_rotate, has_session) THEN cursor
    ELSE IF Len(pool) = 0 \/ FirstUsable(ScanOrder, 1) = 0 THEN cursor
    ELSE (cursor + FirstUsable(ScanOrder, 1)) % Len(pool)

get_token_sticky(force_rotate, has_session) ==
    IF has_session /\ get_token_result(force_rotate, has_session) # NoAccount
    THEN get_token_result(force_rotate, has_session)
    ELSE sticky

\* TokenManager::mark_rate_limited
mark_rate_limited(e) == limited \cup {e}

\* ------------------------------------------------------------- log entries
PickEv(a, f, r) == [type |-> "pick", attempt |-> a, force |-> f, result |-> r]
CallEv(a, e, o) == [type |-> "call", attempt |-> a, email |-> e, outcome |-> o]
MarkEv(a, e, s) == [type |-> "mark", attempt |-> a, email |-> e, status |-> s]
SleepEv(a, ms)  == [type |-> "sleep", attempt |-> a, ms |-> ms]
SuccessEv(a, e) == [type |-> "success", attempt |-> a, email |-> e]
PeekFailEv(a, w) == [type |-> "peekfail", attempt |-> a, why |-> w]

\* no line completed yet
NoStep == [line |-> <<>>, events |-> <<>>]

\* StreamingState::new()
StreamingState_new ==
    [message_start_sent |-> FALSE, message_stop_sent |-> FALSE,
     current_block_kind |-> "none"]

\* ------------------------------------------------------------------- Init
Init ==
    /\ pool \in {[i \in 1..n |-> i] : n \in 0..MaxPool}
    /\ limited = {}
    /\ cursor = 0
    /\ sticky = NoAccount
    /\ pc = "idle"
    /\ handler = "chat"
    /\ is_stream = FALSE
    /\ pool_size = 0
    /\ max_attempts = 1
    /\ attempt = 0
    /\ email = NoAccount
    /\ last_email = NoAccount
    /\ last_error = NoError
    /\ yielded = 0
    /\ first_data_chunk = NoChunk
    /\ peek_elapsed = 0
    /\ delivered = <<>>
    /\ client = NoResponse
    /\ picks = 0
    /\ calls = 0
    /\ log = <<>>
    /\ state = StreamingState_new
    /\ claude_out = <<>>
    /\ claude_pc = "open"
    /\ claude_lines = 0
    /\ sent = <<>>
    /\ uuids = 0
    /\ gemini_buffer = <<>>
    /\ gemini_step = NoStep
    /\ gemini_lines = 0
    /\ gemini_events = 0
    /\ gemini_pc = "open"
    /\ resolved = [original_model |-> <<>>, mapped_model |-> <<>>, config |-> <<>>]
    /\ injection = [called |-> FALSE, body |-> [is_object |-> TRUE, tools |-> [kind |-> "absent", items |-> <<>>]],
                    once |-> [is_object |-> TRUE, tools |-> [kind |-> "absent", items |-> <<>>]],
                    twice |-> [is_object |-> TRUE, tools |-> [kind |-> "absent", items |-> <<>>]]]
    /\ claude_tools = [called |-> FALSE, tools |-> <<>>, model |-> <<>>, mapped_model |-> <<>>,
                       inject_google_search |-> FALSE,
                       inner_request |-> [is_object |-> TRUE, tools |-> [kind |-> "absent", items |-> <<>>]]]
    /\ built = [called |-> FALSE, messages |-> <<>>, is_thinking_enabled |-> FALSE,
                contents |-> <<>>]
    /\ img_pc = "idle"
    /\ img_req = [handler |-> "generations", n |-> 0, response_format |-> "b64_json"]
    /\ img_tasks = <<>>
    /\ img_idx = 0
    /\ img_images = <<>>
    /\ img_errors = 0
    /\ img_response = [status |-> 0, data |-> <<>>]
    /\ factory = [h \in 1..2 |-> IF h = 1 THEN 1 ELSE 0]
    /\ proxy_config = [c \in 1..2 |-> [host |-> 0, port |-> 0]]
    /\ rw_lock = [c \in 1..2 |-> [readers |-> {}, writer |-> 0]]
    /\ build_pc = [b \in 1..2 |-> "idle"]
    /\ build_cfg = [b \in 1..2 |-> [started |-> 0, host |-> 0, port |-> 0]]
    /\ update_pc = [u \in 1..2 |-> "idle"]
    /\ update_cfg = [u \in 1..2 |-> 0]
    /\ updates = 0
    /\ returned = 0
    /\ custom_mapping = {}
    /\ openai_mapping = {}
    /\ anthropic_mapping = {}
    /\ route_pc = "idle"
    /\ route_req = [handler |-> "chat", max_attempts |-> 1]
    /\ route_attempt = 0
    /\ route_mapped = <<>>
    /\ route_sent = <<>>
    /\ normalized = [called |-> FALSE, handler |-> "chat",
                     body |-> [messages |-> <<>>, instructions |-> "<absent>",
                               input |-> "<absent>", prompt |-> "<absent>"],
                     status |-> 0, messages |-> <<>>]
    /\ duration = [called |-> FALSE, duration_str |-> <<>>, result |-> <<>>]
    /\ rc_pc = "idle"
    /\ rc_max = 0
    /\ rc_creds = "same"
    /\ rc_given = 0
    /\ rc_attempt = 0
    /\ rc_calls = <<>>
    /\ rc_result = <<>>
    /\ codex = [called |-> FALSE, input |-> <<>>, messages |-> <<>>]
    /\ save_pc = "idle"
    /\ save_settings = [enabled |-> FALSE, host |-> "", port |-> 0]
    /\ save_trace = <<>>
    /\ save_result = "running"
    /\ live_config = <<>>
    /\ file_config = [enabled |-> FALSE, host |-> "", port |-> 0]
    /\ live_before = <<>>
    /\ file_before = [enabled |-> FALSE, host |-> "", port |-> 0]
    /\ ck_pc = "idle"
    /\ ck_which = "claude"
    /\ ck_received = <<>>
    /\ ck_chunks = 0
    /\ ck_buffer = <<>>
    /\ ck_state = [message_start_sent |-> FALSE, message_stop_sent |-> FALSE,
                   current_block_kind |-> "none"]
    /\ ck_out = <<>>

\* ------------------------------------------------------- retry strategies
NoRetry == [kind |-> "NoRetry"]
FixedDelay(ms) == [kind |-> "FixedDelay", ms |-> ms]
LinearBackoff(base) == [kind |-> "LinearBackoff", base_ms |-> base]
ExponentialBackoff(base, max) ==
    [kind |-> "ExponentialBackoff", base_ms |-> base, max_ms |-> max]

\* the strategy with a back-off in place of the no-retry arm
determine_retry_strategy_retry_all(status_code, error_text) ==
    IF status_code = 429 THEN
        IF parse_retry_delay(error_text) # NoHint
        THEN FixedDelay(Min(parse_retry_delay(error_text) + HINT_BUFFER_MS, HINT_CAP_MS))
        ELSE LinearBackoff(1000)
    ELSE IF status_code \in {503, 529} THEN ExponentialBackoff(1000, 8000)
    ELSE IF status_code \in {401, 403} THEN FixedDelay(100)
    ELSE LinearBackoff(500)

\* openai.rs determine_retry_strategy
determine_retry_strategy(status_code, error_text) ==
    IF status_code = 429 THEN
        IF parse_retry_delay(error_text) # NoHint
        THEN FixedDelay(Min(parse_retry_delay(error_text) + HINT_BUFFER_MS, HINT_CAP_MS))
        ELSE LinearBackoff(1000)
    ELSE IF status_code \in {503, 529} THEN ExponentialBackoff(1000, 8000)
    ELSE IF status_code = 500 THEN LinearBackoff(500)
    ELSE IF status_code \in {401, 403} THEN FixedDelay(100)
    ELSE NoRetry

\* openai.rs apply_retry_strategy: the time slept (NoSleep when it returns
\* false without sleeping)
NoSleep == -1
apply_retry_strategy(strategy, a) ==
    IF strategy.kind = "NoRetry" THEN NoSleep
    ELSE IF strategy.kind = "FixedDelay" THEN strategy.ms
    ELSE IF strategy.kind = "LinearBackoff" THEN strategy.base_ms * (a + 1)
    ELSE Min(strategy.base_ms * Pow2(a), strategy.max_ms)

\* ------------------------------------------- what each handler does with a
\* non-2xx upstream response: does it call mark_rate_limited, how long does
\* it sleep, does it `continue` (retry) or return the response as it is.
Decision(m, s, r) == [mark |-> m, sleep |-> s, retry |-> r]

\* handle_chat_completions, openai.rs 346-405
chat_on_error(status_code, error_text, a) ==
    IF status_code \in {429, 529, 503, 500} THEN
        IF parse_retry_delay(error_text) # NoHint
        THEN Decision(TRUE,
                      Min(parse_retry_delay(error_text) + HINT_BUFFER_MS, HINT_CAP_MS),
                      TRUE)
        ELSE IF contains_QUOTA_EXHAUSTED(error_text)
        THEN Decision(TRUE, NoSleep, FALSE)
        ELSE Decision(TRUE, NoSleep, TRUE)
    ELSE IF status_code \in {403, 401} THEN Decision(FALSE, NoSleep, TRUE)
    ELSE Decision(FALSE, NoSleep, FALSE)

\* handle_completions, openai.rs 985-999
completions_on_error(status_code, error_text, a) ==
    LET strategy == determine_retry_strategy(status_code, error_text)
    IN  Decision(status_code \in {429, 529, 503, 500},
                 apply_retry_strategy(strategy, a),
                 strategy.kind # "NoRetry")

\* handle_messages, claude.rs 177-191
claude_on_error(status_code, error_text, a) ==
    IF status_code \in {429, 403, 401} THEN
        IF status_code = 429 /\ (contains_QUOTA_EXHAUSTED(error_text) \/ contains_quota(error_text))
        THEN Decision(FALSE, NoSleep, FALSE)
        ELSE Decision(FALSE, NoSleep, TRUE)
    ELSE Decision(FALSE, NoSleep, FALSE)

\* handle_generate, gemini.rs 166-180
gemini_on_error(status_code, error_text, a) ==
    IF status_code \in {429, 403, 401} THEN
        IF status_code = 429 /\ (contains_QUOTA_EXHAUSTED(error_text) \/ contains_quota(error_text))
        THEN Decision(FALSE, NoSleep, FALSE)
        ELSE Decision(FALSE, NoSleep, TRUE)
    ELSE Decision(FALSE, NoSleep, FALSE)

on_error(h, status_code, error_text, a) ==
    IF h = "chat" THEN chat_on_error(status_code, error_text, a)
    ELSE IF h = "completions" THEN completions_on_error(status_code, error_text, a)
    ELSE IF h = "claude" THEN claude_on_error(status_code, error_text, a)
    ELSE gemini_on_error(status_code, error_text, a)

\* ------------------------------------------------- responses to the client
Response(s, b, e) == [status |-> s, body |-> b, email |-> e]

\* the budget without its floor of one attempt
compute_max_attempts_no_floor(n) == Min(MAX_RETRY_ATTEMPTS, n)

\* the value of max_attempts: MAX_RETRY_ATTEMPTS.min(pool_size).max(1)
compute_max_attempts(n) == Max(Min(MAX_RETRY_ATTEMPTS, n), 1)

\* a handler that passes no session id
has_session_never(h) == FALSE

\* the OpenAI handlers pass Some(session_id); get_token(&model_group) has none
has_session(h) == h \in OpenAIHandlers

\* a pick that never forces rotation
force_rotate_never(h, a) == FALSE

\* the pick of one attempt: the OpenAI handlers pass force_rotate = attempt > 0
\* and a session id; get_token(&model_group) of the other two has neither
force_rotate(h, a) == h \in OpenAIHandlers /\ a > 0


\* a handler that goes on to the next attempt when get_token fails
get_token_failed_continue(h) == [retry |-> TRUE]

\* Err(e) of get_token: every handler returns, none goes on to the next attempt
get_token_failed(h) == [retry |-> FALSE]

\* the response for Err(e) of get_token: 503
token_error_response(h) ==
    IF h = "claude"
    THEN Response(503, [text |-> "No available accounts: "], NoAccount)
    ELSE Response(503, [text |-> "Token error: "], NoAccount)

\* the statement after the loop
exhausted_response(h, n, err, le) ==
    IF h = "claude"
    THEN Response(429, [text |-> "All N attempts failed. Last error: ", n |-> n, last |-> err], NoAccount)
    ELSE IF h = "gemini"
    THEN Response(429, [text |-> "All accounts exhausted. Last error: ", last |-> err], NoAccount)
    ELSE Response(429, [text |-> "All accounts exhausted. Last error: ", last |-> err], le)

\* a non-retryable upstream response returned as it is
passthrough_response(h, status_code, error_text, e) ==
    IF h \in OpenAIHandlers
    THEN Response(status_code, error_text, e)
    ELSE Response(status_code, error_text, NoAccount)

\* 2xx, unary
unary_response(h, json_ok, e) ==
    IF ~json_ok THEN Response(502, [text |-> "Parse error: "], NoAccount)
    ELSE IF h \in OpenAIHandlers THEN Response(200, [text |-> "json"], e)
    ELSE Response(200, [text |-> "json"], NoAccount)

\* 2xx, SSE
stream_response(h, e) ==
    IF h \in OpenAIHandlers THEN Response(200, [text |-> "event-stream"], e)
    ELSE Response(200, [text |-> "event-stream"], NoAccount)

\* `continue` at the end of attempt a with the error err recorded and the
\* calls evs made: the next iteration, or the statement after the loop
Continue(err, evs) ==
    /\ last_error' = err
    /\ log' = log \o evs
    /\ IF attempt + 1 < max_attempts
       THEN /\ attempt' = attempt + 1
            /\ pc' = "pick"
            /\ client' = client
       ELSE /\ attempt' = attempt
            /\ pc' = "done"
            /\ client' = exhausted_response(handler, max_attempts, err, last_email)

\* ---------------------------------------------------------------- actions
\* a request arrives: the statements before the loop
Start(h, s) ==
    /\ pc \in {"idle", "done", "streaming"}
    /\ handler' = h
    /\ is_stream' = s
    /\ pool_size' = TokenManagerLen
    /\ max_attempts' = compute_max_attempts(pool_size')
    /\ attempt' = 0
    /\ IF 0 < max_attempts'             \* for attempt in 0..max_attempts
       THEN /\ pc' = "pick"
            /\ client' = NoResponse
       ELSE /\ pc' = "done"
            /\ client' = exhausted_response(h, max_attempts', NoError, NoAccount)
    /\ email' = NoAccount
    /\ last_email' = NoAccount
    /\ last_error' = NoError
    /\ yielded' = 0
    /\ first_data_chunk' = NoChunk
    /\ peek_elapsed' = 0
    /\ delivered' = <<>>
    /\ picks' = 0
    /\ calls' = 0
    /\ log' = <<>>
    /\ UNCHANGED tm_vars
    /\ UNCHANGED outside_dispatcher

\* token_manager.get_token(..).await of the current attempt
GetToken ==
    /\ pc = "pick"
    /\ LET f == force_rotate(handler, attempt)
           hs == has_session(handler)
           r == get_token_result(f, hs)
           recent(ev) == ev.attempt >= attempt - 1
       IN  /\ log' = Append(SelectSeq(log, recent), PickEv(attempt, f, r))
           /\ picks' = picks + 1
           /\ cursor' = get_token_cursor(f, hs)
           /\ sticky' = get_token_sticky(f, hs)
           /\ IF r = NoAccount /\ get_token_failed(handler).retry
              THEN /\ attempt' = IF attempt + 1 < max_attempts THEN attempt + 1 ELSE attempt
                   /\ pc' = IF attempt + 1 < max_attempts THEN "pick" ELSE "done"
                   /\ client' = IF attempt + 1 < max_attempts THEN client
                                 ELSE exhausted_response(handler, max_attempts, last_error, last_email)
                   /\ UNCHANGED <<email, last_email>>
              ELSE IF r = NoAccount
              THEN /\ pc' = "done"
                   /\ client' = token_error_response(handler)
                   /\ UNCHANGED <<email, last_email, attempt>>
              ELSE /\ pc' = "call"
                   /\ email' = r
                   /\ last_email' = IF handler \in OpenAIHandlers THEN r ELSE last_email
                   /\ client' = client
                   /\ attempt' = attempt
    /\ UNCHANGED <<pool, limited, handler, is_stream, pool_size, max_attempts,
                   last_error, yielded, first_data_chunk, peek_elapsed, delivered, calls>>
    /\ UNCHANGED outside_dispatcher

\* errors recorded in last_error
NetworkErr == [kind |-> "network"]
HttpErr(status_code, error_text) ==
    [kind |-> "http", status |-> status_code, body |-> error_text]
PeekErr(why) == [kind |-> "peek", why |-> why]

\* upstream.call_v1_internal(..).await of the current attempt, and what the
\* handler does with the outcome up to its next suspension point
CallUpstream(o) ==
    /\ pc = "call"
    /\ is_stream => (is_success(o.status) => o.json_ok)
    /\ calls' = calls + 1
    /\ LET call == CallEv(attempt, email, o)
       IN
       IF o.status = 0 THEN
            /\ Continue(NetworkErr, <<call>>)
            /\ UNCHANGED <<limited, yielded, first_data_chunk, peek_elapsed, delivered>>
       ELSE IF is_success(o.status) THEN
            /\ log' = IF handler = "completions"
                      THEN log \o <<call, SuccessEv(attempt, email)>>
                      ELSE Append(log, call)
            /\ IF is_stream /\ handler \in OpenAIHandlers
               THEN /\ pc' = "peek"
                    /\ client' = client
               ELSE IF is_stream
               THEN /\ pc' = "streaming"
                    /\ client' = stream_response(handler, email)
               ELSE /\ pc' = "done"
                    /\ client' = unary_response(handler, o.json_ok, email)
            /\ yielded' = 0
            /\ first_data_chunk' = NoChunk
            /\ peek_elapsed' = 0
            /\ delivered' = <<>>
            /\ UNCHANGED <<limited, attempt, last_error>>
       ELSE
            LET d == on_error(handler, o.status, o.body, attempt)
                evs == <<call>>
                       \o (IF d.mark THEN <<MarkEv(attempt, email, o.status)>> ELSE <<>>)
                       \o (IF d.sleep # NoSleep THEN <<SleepEv(attempt, d.sleep)>> ELSE <<>>)
            IN  /\ limited' = IF d.mark THEN mark_rate_limited(email) ELSE limited
                /\ IF d.retry
                   THEN Continue(HttpErr(o.status, o.body), evs)
                   ELSE /\ last_error' = HttpErr(o.status, o.body)
                        /\ log' = log \o evs
                        /\ attempt' = attempt
                        /\ pc' = "done"
                        /\ client' = passthrough_response(handler, o.status, o.body, email)
                /\ UNCHANGED <<yielded, first_data_chunk, peek_elapsed, delivered>>
    /\ UNCHANGED <<pool, cursor, sticky, handler, is_stream, pool_size, max_attempts,
                   email, last_email, picks>>
    /\ UNCHANGED outside_dispatcher

\* ------------------------------------------------------------ stream peek
\* what one chunk of the mapped stream looks like to the peek loop
ChunkKinds == {"empty", "comment", "comment_error", "error", "data"}
Chunk(k, i) == [kind |-> k, id |-> i]
bytes_is_empty(c) == c.kind = "empty"
starts_with_colon(c) == c.kind \in {"comment", "comment_error"}
contains_error(c) == c.kind \in {"comment_error", "error"}

\* results of openai_stream.next() under the 60 s timeout
PeekResults == ChunkKinds \cup {"stream_err", "end", "timeout"}

\* a peek loop without the heartbeat test
peek_verdict_no_heartbeat_skip(r) ==
    IF r \in ChunkKinds THEN
        LET c == Chunk(r, 0) IN
        IF bytes_is_empty(c) THEN "skip"
        ELSE IF contains_error(c) THEN "fail"
        ELSE "found"
    ELSE "fail"

\* one iteration of the peek loop: "skip", "fail" or "found"
peek_verdict(r) ==
    IF r \in ChunkKinds THEN
        LET c == Chunk(r, 0) IN
        IF bytes_is_empty(c) THEN "skip"
        ELSE IF starts_with_colon(c) THEN "skip"
        ELSE IF contains_error(c) THEN "fail"
        ELSE "found"
    ELSE "fail"

peek_error(r) ==
    IF r \in ChunkKinds THEN PeekErr("Error event during peek")
    ELSE IF r = "stream_err" THEN PeekErr("Stream error during peek")
    ELSE IF r = "end" THEN PeekErr("Empty response stream during peek")
    ELSE PeekErr("Timeout waiting for first data")

\* the stream handed to the client after the peek
combined_stream_first(first) == <<first>>

\* how long one openai_stream.next() took, in seconds: an upstream that
\* answers at once or not at all, and one that also answers after 30 s
PromptDelays == {0, PEEK_TIMEOUT_S}
Delays == {0, PEEK_TIMEOUT_S \div 2, PEEK_TIMEOUT_S}

\* one iteration of the peek loop: next() answered r after dt seconds; the
\* timeout wraps each next() and fires when it has not answered in 60 s
PeekNext(r, dt) ==
    /\ pc = "peek"
    /\ (r = "timeout") <=> (dt = PEEK_TIMEOUT_S)
    /\ peek_elapsed' = IF peek_verdict(r) = "skip" THEN peek_elapsed + dt ELSE 0
    /\ r \in ChunkKinds \cup {"stream_err"} => yielded < MaxChunks
    /\ yielded' = IF peek_verdict(r) = "fail" THEN 0   \* the stream is dropped
                  ELSE yielded + 1
    /\ IF peek_verdict(r) = "skip" THEN
            UNCHANGED <<pc, attempt, last_error, first_data_chunk, client, log>>
       ELSE IF peek_verdict(r) = "fail" THEN
            /\ Continue(peek_error(r), <<PeekFailEv(attempt, r)>>)
            /\ UNCHANGED first_data_chunk
       ELSE /\ first_data_chunk' = Chunk(r, yielded + 1)
            /\ pc' = "streaming"
            /\ client' = stream_response(handler, email)
            /\ UNCHANGED <<attempt, last_error, log>>
    /\ UNCHANGED <<pool, limited, cursor, sticky, handler, is_stream, pool_size,
                   max_attempts, email, last_email, delivered, picks, calls>>
    /\ UNCHANGED outside_dispatcher

\* the client polls the response body once
StreamResults == ChunkKinds \cup {"stream_err", "end"}

StreamNext(r) ==
    /\ pc = "streaming"
    /\ IF handler \in OpenAIHandlers /\ delivered = <<>> THEN
            \* stream::once(first_data_chunk)
            /\ r = "data"
            /\ delivered' = combined_stream_first(first_data_chunk)
            /\ UNCHANGED <<yielded, pc>>
       ELSE IF r = "end" THEN
            /\ pc' = "done"
            /\ UNCHANGED <<yielded, delivered>>
       ELSE /\ yielded < MaxChunks
            /\ yielded' = yielded + 1
            /\ delivered' = Append(delivered, Chunk(r, yielded + 1))
            \* the body ends at an Err item; handle_messages maps an Err to
            \* an Ok(data: {"error":..}) chunk and goes on
            /\ pc' = IF r = "stream_err" /\ handler # "claude" THEN "done" ELSE pc
    /\ UNCHANGED <<pool, limited, cursor, sticky, handler, is_stream, pool_size,
                   max_attempts, attempt, email, last_email, last_error,
                   first_data_chunk, peek_elapsed, client, picks, calls, log>>
    /\ UNCHANGED outside_dispatcher

\* ------------------------------------------------------------ environment
\* the OAuth collaborator adds an account
AddAccount ==
    /\ Len(pool) < MaxPool
    /\ pool' = Append(pool, Len(pool) + 1)
    /\ UNCHANGED <<limited, cursor, sticky, pc, handler, is_stream, pool_size, max_attempts,
                   attempt, email, last_email, last_error, yielded,
                   first_data_chunk, peek_elapsed, delivered, client, picks, calls, log>>
    /\ UNCHANGED outside_dispatcher

\* the rate-limit window of an account runs out
Expire(a) ==
    /\ a \in limited
    /\ limited' = limited \ {a}
    /\ UNCHANGED <<pool, cursor, sticky, pc, handler, is_stream, pool_size, max_attempts,
                   attempt, email, last_email, last_error, yielded,
                   first_data_chunk, peek_elapsed, delivered, client, picks, calls, log>>
    /\ UNCHANGED outside_dispatcher

Next ==
    \/ \E h \in Handlers, s \in BOOLEAN : Start(h, s)
    \/ GetToken
    \/ \E o \in UpstreamOutcomes : CallUpstream(o)
    \/ \E r \in PeekResults, dt \in PromptDelays : PeekNext(r, dt)
    \/ AddAccount
    \/ \E a \in Accounts : Expire(a)

\* the dispatchers against every upstream outcome and a changing pool
Spec == Init /\ [][Next]_vars

\* the SSE path: every request streams, upstream answers 200, and the client
\* polls the body it was given
StreamOutcomes == {Outcome(200, PlainBody, TRUE)}

NextStream ==
    \/ \E h \in Handlers : Start(h, TRUE)
    \/ GetToken
    \/ \E o \in StreamOutcomes : CallUpstream(o)
    \/ \E r \in PeekResults, dt \in PromptDelays : PeekNext(r, dt)
    \/ \E r \in StreamResults : StreamNext(r)

SpecStream == Init /\ [][NextStream]_vars

\* requests of one session through the OpenAI handlers, answered at once,
\* rate-limited or not at all, while the pool changes
SessionOutcomes ==
    {NetworkError, Outcome(200, PlainBody, TRUE), Outcome(429, PlainBody, FALSE)}

NextSession ==
    \/ \E h \in OpenAIHandlers : Start(h, FALSE)
    \/ GetToken
    \/ \E o \in SessionOutcomes : CallUpstream(o)
    \/ AddAccount
    \/ \E a \in Accounts : Expire(a)

SpecSession == Init /\ [][NextSession]_vars

\* the peek of the OpenAI handlers against a slow upstream
NextPeek ==
    \/ \E h \in OpenAIHandlers : Start(h, TRUE)
    \/ GetToken
    \/ \E o \in StreamOutcomes : CallUpstream(o)
    \/ \E r \in PeekResults, dt \in Delays : PeekNext(r, dt)

SpecPeek == Init /\ [][NextPeek]_vars

TypeOK ==
    /\ pc \in {"idle", "pick", "call", "peek", "streaming", "done"}
    /\ handler \in Handlers
    /\ attempt \in 0..(MAX_RETRY_ATTEMPTS - 1)
    /\ max_attempts \in 1..MAX_RETRY_ATTEMPTS
    /\ picks \in 0..MAX_RETRY_ATTEMPTS
    /\ calls \in 0..MAX_RETRY_ATTEMPTS
    /\ yielded \in 0..MaxChunks
    /\ peek_elapsed \in 0..((MaxChunks + 1) * PEEK_TIMEOUT_S)
    /\ limited \subseteq Accounts

\* ------------------------------------------- Claude stream translator
\* What a translator call gives back: the chunks to yield and the new state.
Emitted(chunks, st) == [chunks |-> chunks, state |-> st]

\* StreamingState: closing the open content block, if any
end_block(st) ==
    IF st.current_block_kind # "none"
    THEN Emitted(<<"content_block_stop">>, [st EXCEPT !.current_block_kind = "none"])
    ELSE Emitted(<<>>, st)

\* StreamingState::emit_message_start
emit_message_start(st) ==
    Emitted(<<"message_start">>, [st EXCEPT !.message_start_sent = TRUE])

\* StreamingState::emit_finish: close the open block, then message_delta and
\* message_stop unless the message was already stopped
emit_finish(st) ==
    LET e == end_block(st)
        tail == IF st.message_stop_sent THEN <<>>
                ELSE IF st.message_start_sent THEN <<"message_delta", "message_stop">>
                ELSE <<"message_stop">>
    IN  Emitted(e.chunks \o tail, [e.state EXCEPT !.message_stop_sent = TRUE])

\* PartProcessor::process for one part: text and thinking parts go into a
\* block of their kind, a functionCall part is a block of its own
PartKinds == {"text", "thinking", "tool_use"}
process_part(st, part) ==
    IF part = "tool_use" THEN
        Emitted(end_block(st).chunks
                    \o <<"content_block_start", "content_block_delta", "content_block_stop">>,
                [st EXCEPT !.current_block_kind = "none"])
    ELSE IF st.current_block_kind = part THEN
        Emitted(<<"content_block_delta">>, st)
    ELSE
        Emitted(end_block(st).chunks \o <<"content_block_start", "content_block_delta">>,
                [st EXCEPT !.current_block_kind = part])

RECURSIVE process_parts(_, _)
process_parts(st, parts) ==
    IF parts = <<>> THEN Emitted(<<>>, st)
    ELSE LET first == process_part(st, Head(parts))
             rest == process_parts(first.state, Tail(parts))
         IN  Emitted(first.chunks \o rest.chunks, rest.state)

\* emit_force_stop without the test of message_stop_sent
emit_force_stop_unguarded(st) ==
    LET f == emit_finish(st)
    IN  IF f.chunks = <<>>
        THEN Emitted(<<"message_stop">>, [f.state EXCEPT !.message_stop_sent = TRUE])
        ELSE f

\* emit_force_stop that hands out the chunks and leaves the state as it was
emit_force_stop_no_record(st) ==
    IF ~st.message_stop_sent THEN
        LET f == emit_finish(st)
        IN  IF f.chunks = <<>>
            THEN Emitted(<<"message_stop">>, st)
            ELSE Emitted(f.chunks, st)
    ELSE Emitted(<<>>, st)

\* emit_force_stop
emit_force_stop(st) ==
    IF ~st.message_stop_sent THEN
        LET f == emit_finish(st)
        IN  IF f.chunks = <<>>
            THEN Emitted(<<"message_stop">>, [f.state EXCEPT !.message_stop_sent = TRUE])
            ELSE f
    ELSE Emitted(<<>>, st)

\* One upstream line after trim():
\*   blank     nothing left after trim                     (skipped by the loop)
\*   comment   does not start with "data: " (": ping", "event: x", "data:")
\*   done      data: [DONE]
\*   bad_json  data: followed by text that is no JSON
\*   json      data: <json>, with the parts of candidates[0].content and the
\*             presence of candidates[0].finishReason
JsonLine(parts, finish) == [kind |-> "json", parts |-> parts, finish |-> finish]
OtherLine(k) == [kind |-> k, parts |-> <<>>, finish |-> FALSE]
PartLists == {<<>>, <<"text">>, <<"thinking">>, <<"tool_use">>, <<"text", "tool_use">>}
Lines ==
    {OtherLine(k) : k \in {"blank", "comment", "done", "bad_json"}}
        \cup {JsonLine(ps, f) : ps \in PartLists, f \in BOOLEAN}

\* process_sse_line; no chunks stands for None
process_sse_line(line, st) ==
    IF line.kind = "comment" THEN Emitted(<<>>, st)
    ELSE IF line.kind = "done" THEN emit_force_stop(st)
    ELSE IF line.kind = "bad_json" THEN Emitted(<<>>, st)
    ELSE
        LET start == IF ~st.message_start_sent THEN emit_message_start(st)
                     ELSE Emitted(<<>>, st)
            parts == process_parts(start.state, line.parts)
            finish == IF line.finish THEN emit_finish(parts.state)
                      ELSE Emitted(<<>>, parts.state)
        IN  Emitted(start.chunks \o parts.chunks \o finish.chunks, finish.state)

\* a new upstream body is handed to create_claude_sse_stream
ClaudeStreamNew ==
    /\ claude_pc = "closed"
    /\ state' = StreamingState_new
    /\ claude_out' = <<>>
    /\ claude_pc' = "open"
    /\ claude_lines' = 0
    /\ UNCHANGED outside_claude

\* the loop takes one complete line out of the buffer
ClaudeStreamLine(line) ==
    /\ claude_pc = "open"
    /\ claude_lines < MaxLines
    /\ claude_lines' = claude_lines + 1
    /\ LET r == IF line.kind = "blank" THEN Emitted(<<>>, state)
                ELSE process_sse_line(line, state)
       IN  /\ claude_out' = claude_out \o r.chunks
           /\ state' = r.state
    /\ UNCHANGED claude_pc
    /\ UNCHANGED outside_claude

\* gemini_stream.next() is None (ended = TRUE) or Some(Err(e)): the loop is
\* left, after yielding the Err in the second case, and emit_force_stop runs
ClaudeStreamEnd(ended) ==
    /\ claude_pc = "open"
    /\ LET r == emit_force_stop(state)
       IN  /\ claude_out' = claude_out \o (IF ended THEN <<>> ELSE <<"Err">>) \o r.chunks
           /\ state' = r.state
    /\ claude_pc' = "closed"
    /\ UNCHANGED claude_lines
    /\ UNCHANGED outside_claude

NextClaudeStream ==
    \/ ClaudeStreamNew
    \/ \E line \in Lines : ClaudeStreamLine(line)
    \/ \E ended \in BOOLEAN : ClaudeStreamEnd(ended)

SpecClaudeStream == Init /\ [][NextClaudeStream]_vars

\* ------------------------------------------------------ upstream envelope
\* Uuid::new_v4(): the k-th call gives a value no other call gives
new_v4(k) == k + 1

EnvelopeKeys == {"project", "requestId", "model", "userAgent", "requestType", "request"}

\* a body: its top-level keys, its requestId as prefix and UUID, and who built it
Envelope(keys, prefix, id, by) ==
    [keys |-> keys, requestId |-> [prefix |-> prefix, uuid |-> id], by |-> by]

\* transform_claude_request_in: the json!({..}) of its last statement; the
\* sessionId of metadata.user_id goes inside "request"
transform_claude_request_in(k) ==
    Envelope({"project", "requestId", "request", "model", "userAgent", "requestType"},
             "agent-", new_v4(k), "claude")

\* transform_openai_request (mappers/openai)
transform_openai_request(k, h) == Envelope(EnvelopeKeys, "agent-", new_v4(k), h)

\* wrap_request (mappers/gemini)
wrap_request(k) == Envelope(EnvelopeKeys, "agent-", new_v4(k), "gemini")

\* the body of one task of handle_images_generations
images_generations_body(k) ==
    Envelope({"project", "requestId", "model", "userAgent", "requestType", "request"},
             "agent-", new_v4(k), "images_generations")

\* the gemini_body of handle_images_edits
images_edits_body(k) ==
    Envelope({"project", "requestId", "model", "userAgent", "requestType", "request"},
             "img-edit-", new_v4(k), "images_edits")

\* the body one attempt of a dispatcher builds
attempt_body(h, k) ==
    IF h = "claude" THEN transform_claude_request_in(k)
    ELSE IF h = "gemini" THEN wrap_request(k)
    ELSE transform_openai_request(k, h)

\* one attempt of a dispatcher: build the body, call upstream with it
SendAttempt(h) ==
    /\ Len(sent) < MaxSent
    /\ sent' = Append(sent, attempt_body(h, uuids))
    /\ uuids' = uuids + 1
    /\ UNCHANGED outside_envelope

\* handle_images_generations: n tasks, each builds its own body
SendImagesGenerations(n) ==
    /\ Len(sent) + n <= MaxSent
    /\ sent' = sent \o [i \in 1..n |-> images_generations_body(uuids + i - 1)]
    /\ uuids' = uuids + n
    /\ UNCHANGED outside_envelope

\* handle_images_edits: one gemini_body, a clone of it for each of n tasks
SendImagesEdits(n) ==
    /\ Len(sent) + n <= MaxSent
    /\ sent' = sent \o [i \in 1..n |-> images_edits_body(uuids)]
    /\ uuids' = uuids + 1
    /\ UNCHANGED outside_envelope

NextEnvelope ==
    \/ \E h \in Handlers : SendAttempt(h)
    \/ \E n \in 1..MaxN : SendImagesGenerations(n)
    \/ \E n \in 1..MaxN : SendImagesEdits(n)

SpecEnvelope == Init /\ [][NextEnvelope]_vars

\* ------------------------------------------- Gemini stream translator
\* The text of a line is a sequence of pieces, written one after the other
\* with nothing in between:
\*   "data:"  " " (white space)  "[DONE]"  ":ping" (text that is no JSON)
\*   four JSON texts: an object with and one without a top-level response
\*   field, each written compactly and with white space
\*   "<ff>"   a byte that is no UTF-8
JsonResponse == "{\"response\":{\"a\":1}}"
JsonResponseSpaced == "{ \"response\": { \"a\": 1 } }"
JsonPlain == "{\"a\":1}"
JsonPlainSpaced == "{ \"a\": 1 }"
JsonTexts == {JsonResponse, JsonResponseSpaced, JsonPlain, JsonPlainSpaced}
Tokens == {"data:", " ", "[DONE]", ":ping", "<ff>"} \cup JsonTexts

\* std::str::from_utf8(..).is_ok()
from_utf8_ok(text) == \A i \in 1..Len(text) : text[i] # "<ff>"

\* str::trim
RECURSIVE trim_start(_)
trim_start(text) ==
    IF text # <<>> /\ Head(text) = " " THEN trim_start(Tail(text)) ELSE text

RECURSIVE trim_end(_)
trim_end(text) ==
    IF text # <<>> /\ text[Len(text)] = " "
    THEN trim_end(SubSeq(text, 1, Len(text) - 1))
    ELSE text

trim(text) == trim_end(trim_start(text))

\* line.starts_with("data: ")
starts_with_data(text) == Len(text) >= 2 /\ text[1] = "data:" /\ text[2] = " "

\* line.trim_start_matches("data: "): every leading repetition is removed
RECURSIVE trim_start_matches_data(_)
trim_start_matches_data(text) ==
    IF starts_with_data(text)
    THEN trim_start_matches_data(SubSeq(text, 3, Len(text)))
    ELSE text

\* serde_json::from_str::<Value>: the value of a JSON text; the two ways of
\* writing an object give the same value
JsonValue(has_response, inner) == [ok |-> TRUE, has_response |-> has_response, inner |-> inner]
ParseError == [ok |-> FALSE, has_response |-> FALSE, inner |-> ""]
from_str(text) ==
    IF Len(text) # 1 THEN ParseError
    ELSE IF text[1] \in {JsonResponse, JsonResponseSpaced} THEN JsonValue(TRUE, "a1")
    ELSE IF text[1] \in {JsonPlain, JsonPlainSpaced} THEN JsonValue(FALSE, "a1")
    ELSE ParseError

\* serde_json::to_string: the compact text of a value
to_string(value) ==
    IF value.has_response THEN JsonResponse ELSE JsonPlain

\* json.get_mut("response").map(|v| v.take()), else the json itself
unwrap_inner(value) ==
    IF value.has_response THEN JsonValue(FALSE, value.inner) ELSE value

\* an item of the client stream: the text and what ends it
SseEvent(text, end) == [text |-> text, end |-> end]

\* the body of the stream! block without the branch for lines that are not data
gemini_line_data_only(line_raw) ==
    IF ~from_utf8_ok(line_raw) THEN <<SseEvent(line_raw, "\n")>>
    ELSE LET line == trim(line_raw)
         IN  IF line = <<>> THEN <<>>
             ELSE IF starts_with_data(line) THEN
                 LET json_part == trim(trim_start_matches_data(line))
                 IN  IF json_part = <<"[DONE]">>
                     THEN <<SseEvent(<<"data:", " ", "[DONE]">>, "\n\n")>>
                     ELSE IF from_str(json_part).ok
                     THEN <<SseEvent(<<"data:", " ", to_string(unwrap_inner(from_str(json_part)))>>,
                                     "\n\n")>>
                     ELSE <<SseEvent(line, "\n\n")>>
             ELSE <<>>

\* what the stream! block yields for one line taken out of the buffer
\* (line_raw is the line without its newline)
gemini_line(line_raw) ==
    IF ~from_utf8_ok(line_raw) THEN <<SseEvent(line_raw, "\n")>>
    ELSE LET line == trim(line_raw)
         IN  IF line = <<>> THEN <<>>
             ELSE IF starts_with_data(line) THEN
                 LET json_part == trim(trim_start_matches_data(line))
                 IN  IF json_part = <<"[DONE]">>
                     THEN <<SseEvent(<<"data:", " ", "[DONE]">>, "\n\n")>>
                     ELSE IF from_str(json_part).ok
                     THEN <<SseEvent(<<"data:", " ", to_string(unwrap_inner(from_str(json_part)))>>,
                                     "\n\n")>>
                     ELSE <<SseEvent(line, "\n\n")>>
             ELSE <<SseEvent(line, "\n\n")>>

\* bytes without a newline arrive and are put into the buffer
GeminiBytes(t) ==
    /\ gemini_pc = "open"
    /\ Len(gemini_buffer) < MaxTokens
    /\ gemini_buffer' = Append(gemini_buffer, t)
    /\ gemini_step' = NoStep
    /\ UNCHANGED <<gemini_lines, gemini_events, gemini_pc>>
    /\ UNCHANGED outside_gemini

\* a newline arrives: the buffer up to it is one line
GeminiNewline ==
    /\ gemini_pc = "open"
    /\ gemini_lines < MaxLines
    /\ gemini_buffer' = <<>>
    /\ gemini_step' = [line |-> gemini_buffer, events |-> gemini_line(gemini_buffer)]
    /\ gemini_lines' = IF from_utf8_ok(gemini_buffer) /\ trim(gemini_buffer) = <<>>
                       THEN gemini_lines ELSE gemini_lines + 1
    /\ gemini_events' = gemini_events + Len(gemini_line(gemini_buffer))
    /\ UNCHANGED gemini_pc
    /\ UNCHANGED outside_gemini

\* response_stream ends, or yields an error that ends the body the client
\* reads; what is left in the buffer is dropped
GeminiEnd ==
    /\ gemini_pc = "open"
    /\ gemini_pc' = "closed"
    /\ gemini_buffer' = <<>>
    /\ gemini_step' = NoStep
    /\ UNCHANGED <<gemini_lines, gemini_events>>
    /\ UNCHANGED outside_gemini

\* a new upstream body
GeminiNew ==
    /\ gemini_pc = "closed"
    /\ gemini_pc' = "open"
    /\ gemini_lines' = 0
    /\ gemini_events' = 0
    /\ UNCHANGED <<gemini_buffer, gemini_step>>
    /\ UNCHANGED outside_gemini

NextGeminiStream ==
    \/ \E t \in Tokens : GeminiBytes(t)
    \/ GeminiNewline
    \/ GeminiEnd
    \/ GeminiNew

SpecGeminiStream == Init /\ [][NextGeminiStream]_vars

\* ------------------------------------------------ request configuration
\* A model name is a sequence of pieces written one after the other: a base
\* name, then suffixes.  Every suffix but "x" begins with a dash.
RECURSIVE SeqsUpTo(_, _)
SeqsUpTo(S, n) ==
    IF n = 0 THEN {<<>>}
    ELSE LET shorter == SeqsUpTo(S, n - 1)
         IN  shorter \cup {Append(q, x) : q \in shorter, x \in S}

DashSuffixes == {"-online", "-16x9", "-9x16", "-4x3", "-3x4", "-1x1", "-4k", "-hd", "-002"}
OriginalBases == {"gemini-3-pro-image", "gemini-3-flash"}
MappedBases == {"gemini-3-pro-image", "gemini-2.5-flash", "gemini-1.5-pro", "gemini-3-flash"}
MappedSuffixes == {"-online", "-002", "x"}
OriginalModels == {<<b>> \o q : b \in OriginalBases, q \in SeqsUpTo(DashSuffixes, MaxSuffixes)}
MappedModels == {<<b>> \o q : b \in MappedBases, q \in SeqsUpTo(MappedSuffixes, MaxSuffixes)}

\* Option<T>
None == <<>>
Some(v) == <<v>>

\* str::starts_with(base): the name begins with the base name
starts_with(name, base) == name # <<>> /\ name[1] = base

\* str::starts_with(base + "-")
starts_with_dash(name, base) ==
    Len(name) >= 2 /\ name[1] = base /\ name[2] \in DashSuffixes

\* str::ends_with(suffix)
ends_with(name, suffix) == Len(name) >= 2 /\ name[Len(name)] = suffix

\* str::trim_end_matches(suffix): every trailing repetition is removed
RECURSIVE trim_end_matches(_, _)
trim_end_matches(name, suffix) ==
    IF ends_with(name, suffix)
    THEN trim_end_matches(SubSeq(name, 1, Len(name) - 1), suffix)
    ELSE name

\* str::contains(suffix)
contains(name, suffix) == \E i \in 1..Len(name) : name[i] = suffix

RequestConfig(t, i, m, c) ==
    [request_type |-> t, inject_google_search |-> i, final_model |-> m, image_config |-> c]

\* parse_image_config without the imageSize key
parse_image_config_no_size(model_name) ==
    LET aspect_ratio ==
            IF contains(model_name, "-16x9") THEN "16:9"
            ELSE IF contains(model_name, "-9x16") THEN "9:16"
            ELSE IF contains(model_name, "-4x3") THEN "4:3"
            ELSE IF contains(model_name, "-3x4") THEN "3:4"
            ELSE "1:1"
    IN  [image_config |-> [aspectRatio |-> aspect_ratio],
         clean_model_name |-> <<"gemini-3-pro-image">>]

\* parse_image_config
parse_image_config(model_name) ==
    LET aspect_ratio ==
            IF contains(model_name, "-16x9") THEN "16:9"
            ELSE IF contains(model_name, "-9x16") THEN "9:16"
            ELSE IF contains(model_name, "-4x3") THEN "4:3"
            ELSE IF contains(model_name, "-3x4") THEN "3:4"
            ELSE IF contains(model_name, "-1x1") THEN "1:1"
            ELSE "1:1"
        is_hd == contains(model_name, "-4k") \/ contains(model_name, "-hd")
    IN  [image_config |-> IF is_hd
                          THEN [aspectRatio |-> aspect_ratio, imageSize |-> "4K"]
                          ELSE [aspectRatio |-> aspect_ratio],
         clean_model_name |-> <<"gemini-3-pro-image">>]

is_high_quality_model(mapped_model) ==
    \/ mapped_model = <<"gemini-2.5-flash">>
    \/ mapped_model = <<"gemini-1.5-pro">>
    \/ starts_with_dash(mapped_model, "gemini-1.5-pro")
    \/ starts_with_dash(mapped_model, "gemini-2.5-flash")

\* resolve_request_config with the image rule after the networking rules
resolve_request_config_online_first(original_model, mapped_model) ==
    LET enable_networking ==
            ends_with(original_model, "-online") \/ is_high_quality_model(mapped_model)
    IN  IF enable_networking
        THEN RequestConfig("web_search", TRUE,
                           trim_end_matches(mapped_model, "-online"), None)
        ELSE IF starts_with(mapped_model, "gemini-3-pro-image")
        THEN LET parsed == parse_image_config(original_model)
             IN  RequestConfig("image_gen", FALSE, parsed.clean_model_name,
                               Some(parsed.image_config))
        ELSE RequestConfig("agent", FALSE,
                           trim_end_matches(mapped_model, "-online"), None)

\* resolve_request_config with the original model as final_model
resolve_request_config_original(original_model, mapped_model) ==
    IF starts_with(mapped_model, "gemini-3-pro-image")
    THEN LET parsed == parse_image_config(original_model)
         IN  RequestConfig("image_gen", FALSE, parsed.clean_model_name,
                           Some(parsed.image_config))
    ELSE LET is_online_suffix == ends_with(original_model, "-online")
             final_model == trim_end_matches(original_model, "-online")
             enable_networking == is_online_suffix \/ is_high_quality_model(mapped_model)
         IN  RequestConfig(IF enable_networking THEN "web_search" ELSE "agent",
                           enable_networking, final_model, None)

\* resolve_request_config
resolve_request_config(original_model, mapped_model) ==
    IF starts_with(mapped_model, "gemini-3-pro-image")
    THEN LET parsed == parse_image_config(original_model)
         IN  RequestConfig("image_gen", FALSE, parsed.clean_model_name,
                           Some(parsed.image_config))
    ELSE LET is_online_suffix == ends_with(original_model, "-online")
             final_model == trim_end_matches(mapped_model, "-online")
             enable_networking == is_online_suffix \/ is_high_quality_model(mapped_model)
         IN  RequestConfig(IF enable_networking THEN "web_search" ELSE "agent",
                           enable_networking, final_model, None)

\* a request resolves its configuration, once
Resolve(original_model, mapped_model) ==
    /\ resolved.config = None
    /\ resolved' = [original_model |-> original_model,
                    mapped_model |-> mapped_model,
                    config |-> Some(resolve_request_config(original_model, mapped_model))]
    /\ UNCHANGED outside_mapper

\* the request is over
ResolveEnd ==
    /\ resolved.config # None
    /\ resolved' = [original_model |-> <<>>, mapped_model |-> <<>>, config |-> None]
    /\ UNCHANGED outside_mapper

NextResolve ==
    \/ resolved.config = None /\ \E o \in OriginalModels, m \in MappedModels : Resolve(o, m)
    \/ ResolveEnd

\* the pool plays no part here: it is left as it is after construction
InitEmptyPool == Init /\ pool = <<>>

SpecResolve == InitEmptyPool /\ [][NextResolve]_vars

\* ------------------------------------------------------ googleSearch tool
\* The value of a JSON key: absent, an array of entries, or something else.
\* An entry of a tools array is named by its key; the entry Claude's
\* web_search is mapped to is a googleSearch entry with enhancedContent.
Absent == [kind |-> "absent", items |-> <<>>]
NotArray == [kind |-> "null", items |-> <<>>]
Array(items) == [kind |-> "array", items |-> items]
ToolEntries == {"functionDeclarations", "googleSearch", "googleSearch:enhancedContent"}

\* t.get("googleSearch").is_some()
has_googleSearch(t) == t \in {"googleSearch", "googleSearch:enhancedContent"}

\* a request body as far as the tools are concerned
JsonBody(is_object, tools) == [is_object |-> is_object, tools |-> tools]
Bodies ==
    {JsonBody(FALSE, Absent), JsonBody(TRUE, Absent), JsonBody(TRUE, NotArray)}
        \cup {JsonBody(TRUE, Array(q)) : q \in SeqsUpTo(ToolEntries, MaxTools)}

\* inject_google_search_tool that pushes the entry without looking
inject_google_search_tool_push(body) ==
    IF ~body.is_object THEN body
    ELSE LET tools_entry == IF body.tools = Absent THEN Array(<<>>) ELSE body.tools
         IN  IF tools_entry.kind # "array" THEN [body EXCEPT !.tools = tools_entry]
             ELSE [body EXCEPT !.tools = Array(Append(tools_entry.items, "googleSearch"))]

\* inject_google_search_tool
inject_google_search_tool(body) ==
    IF ~body.is_object THEN body
    ELSE LET tools_entry == IF body.tools = Absent THEN Array(<<>>) ELSE body.tools
         IN  IF tools_entry.kind # "array" THEN [body EXCEPT !.tools = tools_entry]
             ELSE LET has_search == \E i \in 1..Len(tools_entry.items) :
                                        has_googleSearch(tools_entry.items[i])
                  IN  IF ~has_search
                      THEN [body EXCEPT !.tools = Array(Append(tools_entry.items, "googleSearch"))]
                      ELSE [body EXCEPT !.tools = tools_entry]

\* the tools of a Claude request: None, or the names of the declared tools
ToolNames == {"web_search", "get_weather", "bash"}
ClaudeToolLists == {None} \cup {Some(q) : q \in SeqsUpTo(ToolNames, MaxTools)}
ClaudeModels == {<<b>> \o q : b \in OriginalBases, q \in {<<>>, <<"-online">>}}

\* has_web_search_tool of transform_claude_request_in
has_web_search_tool(tools) ==
    tools # None /\ \E i \in 1..Len(tools[1]) : tools[1][i] = "web_search"

\* build_tools
build_tools(tools, has_web_search) ==
    IF tools # None /\ has_web_search THEN Some(<<"googleSearch:enhancedContent">>)
    ELSE IF tools # None /\ tools[1] # <<>> THEN Some(<<"functionDeclarations">>)
    ELSE None

\* transform_claude_request_in, as far as the tools are concerned; mapped is
\* what map_claude_model_to_gemini returns for the model
transform_claude_tools(tools, model, mapped) ==
    LET has_web_search == has_web_search_tool(tools)
        tools_val == build_tools(tools, has_web_search)
        inner_request == JsonBody(TRUE, IF tools_val = None THEN Absent ELSE Array(tools_val[1]))
        mapped_model == IF has_web_search THEN <<"gemini-2.5-flash">> ELSE mapped
        config == resolve_request_config(model, mapped_model)
        with_search == IF config.inject_google_search /\ ~has_web_search
                       THEN inject_google_search_tool(inner_request)
                       ELSE inner_request
        final == IF config.image_config # None
                 THEN [with_search EXCEPT !.tools = Absent]
                 ELSE with_search
    IN  [mapped_model |-> mapped_model, config |-> config, inner_request |-> final]

\* inject_google_search_tool is applied to a body, and once more to the result
InjectTool(body) ==
    /\ ~injection.called
    /\ injection' = [called |-> TRUE, body |-> body,
                     once |-> inject_google_search_tool(body),
                     twice |-> inject_google_search_tool(inject_google_search_tool(body))]
    /\ UNCHANGED claude_tools
    /\ UNCHANGED outside_tools

\* a Claude request is transformed
TransformClaudeTools(tools, model, mapped) ==
    /\ ~claude_tools.called
    /\ LET r == transform_claude_tools(tools, model, mapped)
       IN  claude_tools' = [called |-> TRUE, tools |-> tools, model |-> model,
                            mapped_model |-> r.mapped_model,
                            inject_google_search |-> r.config.inject_google_search,
                            inner_request |-> r.inner_request]
    /\ UNCHANGED injection
    /\ UNCHANGED outside_tools

\* the next body, the next request
ToolsEnd ==
    /\ injection.called \/ claude_tools.called
    /\ injection' = [called |-> FALSE, body |-> JsonBody(TRUE, Absent),
                     once |-> JsonBody(TRUE, Absent), twice |-> JsonBody(TRUE, Absent)]
    /\ claude_tools' = [called |-> FALSE, tools |-> None, model |-> <<>>, mapped_model |-> <<>>,
                        inject_google_search |-> FALSE,
                        inner_request |-> JsonBody(TRUE, Absent)]
    /\ UNCHANGED outside_tools

NextTools ==
    \/ ~injection.called /\ \E b \in Bodies : InjectTool(b)
    \/ ~claude_tools.called /\
          \E t \in ClaudeToolLists, m \in ClaudeModels, g \in MappedBases :
              TransformClaudeTools(t, m, <<g>>)
    \/ ToolsEnd

SpecTools == InitEmptyPool /\ [][NextTools]_vars

\* ------------------------------------------- contents of a Claude request
\* ContentBlock: the fields a kind does not have are ""
ContentBlock(type, text, id, name) == [type |-> type, text |-> text, id |-> id, name |-> name]
TextBlock(text) == ContentBlock("text", text, "", "")
ThinkingBlock(thinking) == ContentBlock("thinking", thinking, "", "")
ImageBlock(source_type) == ContentBlock("image", source_type, "", "")
ToolUse(id, name) == ContentBlock("tool_use", "", id, name)
ToolResult(tool_use_id) == ContentBlock("tool_result", "", tool_use_id, "")

\* MessageContent
StringContent(text) == [is_string |-> TRUE, text |-> text, blocks |-> <<>>]
ArrayContent(blocks) == [is_string |-> FALSE, text |-> "", blocks |-> blocks]

Message(role, content) == [role |-> role, content |-> content]

MessageContents ==
    { StringContent("Hello"), StringContent(" Hello "), StringContent(" "),
      StringContent("(no content)"),
      ArrayContent(<<>>),
      ArrayContent(<<TextBlock("Hello")>>),
      ArrayContent(<<TextBlock("(no content)")>>),
      ArrayContent(<<ThinkingBlock("plan")>>),
      ArrayContent(<<TextBlock("Hello"), ThinkingBlock("plan")>>),
      ArrayContent(<<ImageBlock("base64")>>),
      ArrayContent(<<ImageBlock("url")>>),
      ArrayContent(<<ToolUse("toolu_1", "get_weather")>>),
      ArrayContent(<<ToolResult("toolu_1")>>),
      ArrayContent(<<ToolUse("toolu_1", "get_weather"), ToolResult("toolu_1")>>),
      ArrayContent(<<ToolResult("toolu_1"), ToolUse("toolu_1", "get_weather")>>) }

Messages == {Message(r, c) : r \in {"user", "assistant"}, c \in MessageContents}

\* str::trim of a message text
trim_text(text) ==
    IF text = " Hello " THEN "Hello" ELSE IF text = " " THEN "" ELSE text

\* a part of a Gemini content: the keys a part does not have are "" / FALSE
Part(kind, text, thought, name, id) ==
    [kind |-> kind, text |-> text, thought |-> thought, name |-> name, id |-> id]

\* HashMap<String, String>: the pairs <<id, name>>; get gives the name or ""
Get(map, id) ==
    IF \E e \in map : e[1] = id THEN (CHOOSE e \in map : e[1] = id)[2] ELSE ""
Insert(map, id, name) == {e \in map : e[1] # id} \cup {<<id, name>>}

\* the arms of the match on a ContentBlock: the parts pushed
block_parts(item, tool_id_to_name) ==
    IF item.type = "text"
    THEN IF item.text # "(no content)" THEN <<Part("text", item.text, FALSE, "", "")>> ELSE <<>>
    ELSE IF item.type = "thinking"
    THEN <<Part("text", item.text, TRUE, "", "")>>
    ELSE IF item.type = "image"
    THEN IF item.text = "base64" THEN <<Part("inlineData", "", FALSE, "", "")>> ELSE <<>>
    ELSE IF item.type = "tool_use"
    THEN <<Part("functionCall", "", FALSE, item.name, item.id)>>
    ELSE LET func_name == IF Get(tool_id_to_name, item.id) # ""
                          THEN Get(tool_id_to_name, item.id)
                          ELSE item.id
         IN  <<Part("functionResponse", "", FALSE, func_name, item.id)>>

\* the loop over the blocks of one message: the parts and the map after it
RECURSIVE blocks_parts(_, _, _)
blocks_parts(blocks, parts, tool_id_to_name) ==
    IF blocks = <<>> THEN [parts |-> parts, tool_id_to_name |-> tool_id_to_name]
    ELSE LET item == Head(blocks)
         IN  blocks_parts(Tail(blocks),
                          parts \o block_parts(item, tool_id_to_name),
                          IF item.type = "tool_use"
                          THEN Insert(tool_id_to_name, item.id, item.name)
                          ELSE tool_id_to_name)

\* the match on msg.content
content_parts(content, tool_id_to_name) ==
    IF content.is_string
    THEN [parts |-> IF content.text # "(no content)" /\ trim_text(content.text) # ""
                    THEN <<Part("text", trim_text(content.text), FALSE, "", "")>>
                    ELSE <<>>,
          tool_id_to_name |-> tool_id_to_name]
    ELSE blocks_parts(content.blocks, <<>>, tool_id_to_name)

\* the pre-fill condition without the test for the last message
is_prefill_message_any(role, is_thinking_enabled, i, msg_count) ==
    role = "model" /\ is_thinking_enabled

\* role == "model" && is_thinking_enabled && i == msg_count - 1  (i from 0)
is_prefill_message(role, is_thinking_enabled, i, msg_count) ==
    role = "model" /\ is_thinking_enabled /\ i = msg_count - 1

DummyThought == Part("text", "Thinking...", TRUE, "", "")

\* the loop of build_contents from message i on (i from 0)
RECURSIVE build_contents_from(_, _, _, _)
build_contents_from(messages, i, tool_id_to_name, is_thinking_enabled) ==
    IF i >= Len(messages) THEN <<>>
    ELSE LET msg == messages[i + 1]
             role == IF msg.role = "assistant" THEN "model" ELSE msg.role
             r == content_parts(msg.content, tool_id_to_name)
             has_thought_part == \E k \in 1..Len(r.parts) : r.parts[k].thought
             parts == IF is_prefill_message(role, is_thinking_enabled, i, Len(messages))
                         /\ ~has_thought_part
                      THEN <<DummyThought>> \o r.parts
                      ELSE r.parts
         IN  <<[role |-> role, parts |-> parts]>>
                 \o build_contents_from(messages, i + 1, r.tool_id_to_name, is_thinking_enabled)

\* build_contents; the map comes in empty (request.rs 24)
build_contents(messages, is_thinking_enabled) ==
    build_contents_from(messages, 0, {}, is_thinking_enabled)

\* transform_claude_request_in builds the contents of a request
BuildContents(messages, is_thinking_enabled) ==
    /\ ~built.called
    /\ built' = [called |-> TRUE, messages |-> messages,
                 is_thinking_enabled |-> is_thinking_enabled,
                 contents |-> build_contents(messages, is_thinking_enabled)]
    /\ UNCHANGED outside_contents

\* the next request
ContentsEnd ==
    /\ built.called
    /\ built' = [called |-> FALSE, messages |-> <<>>, is_thinking_enabled |-> FALSE,
                 contents |-> <<>>]
    /\ UNCHANGED outside_contents

NextContents ==
    \/ ~built.called /\ \E ms \in SeqsUpTo(Messages, MaxMessages), t \in BOOLEAN :
                            BuildContents(ms, t)
    \/ ContentsEnd

SpecContents == InitEmptyPool /\ [][NextContents]_vars

\* ----------------------------------------------------- image handlers
\* What a spawned task returns: Err(message), or Ok(json) with the parts of
\* the first candidate; a part is an image (inlineData with data), an
\* inlineData without data, or text.
TaskRunning == [done |-> FALSE, ok |-> FALSE, parts |-> <<>>]
TaskErr == [done |-> TRUE, ok |-> FALSE, parts |-> <<>>]
TaskOk(parts) == [done |-> TRUE, ok |-> TRUE, parts |-> parts]
TaskResults ==
    { TaskErr, TaskOk(<<>>), TaskOk(<<"image">>), TaskOk(<<"empty">>),
      TaskOk(<<"text", "image">>), TaskOk(<<"image", "image">>) }

\* an entry of data: the image of part j of task i, as url or as b64_json
ImageEntry(format, i, j) == [format |-> format, task |-> i, part |-> j]

\* for part in parts: the entries pushed for the parts from j on
RECURSIVE parts_images(_, _, _, _)
parts_images(parts, format, i, j) ==
    IF j > Len(parts) THEN <<>>
    ELSE (IF parts[j] = "image" THEN <<ImageEntry(format, i, j)>> ELSE <<>>)
         \o parts_images(parts, format, i, j + 1)

\* the response when the tasks are collected, answering 200 also without images
images_response_always_ok(images, errors) ==
    [status |-> 200, data |-> images]

\* the response when the tasks are collected
images_response(images, errors) ==
    IF images = <<>> THEN [status |-> 502, data |-> <<>>]
    ELSE [status |-> 200, data |-> images]

\* the request is parsed and the token fetched; with both in order the n
\* tasks are spawned
ImagesStart(h, n, format, outcome) ==
    /\ img_pc = "idle"
    /\ img_req' = [handler |-> h, n |-> n, response_format |-> format]
    /\ IF outcome = "ok"
       THEN /\ img_pc' = "gather"
            /\ img_tasks' = [i \in 1..n |-> TaskRunning]
            /\ img_response' = [status |-> 0, data |-> <<>>]
       ELSE /\ img_pc' = "done"
            /\ img_tasks' = <<>>
            /\ img_response' = [status |-> IF outcome = "bad_request" THEN 400 ELSE 503,
                                data |-> <<>>]
    /\ img_idx' = 0
    /\ img_images' = <<>>
    /\ img_errors' = 0
    /\ UNCHANGED outside_images

\* a spawned task ends, in any order
ImagesTaskDone(i, r) ==
    /\ img_pc = "gather"
    /\ i \in 1..Len(img_tasks)
    /\ ~img_tasks[i].done
    /\ img_tasks' = [img_tasks EXCEPT ![i] = r]
    /\ UNCHANGED <<img_pc, img_req, img_idx, img_images, img_errors, img_response>>
    /\ UNCHANGED outside_images

\* for (idx, task) in tasks: task.await and the match on its result
ImagesGather ==
    /\ img_pc = "gather"
    /\ img_idx < Len(img_tasks)
    /\ img_tasks[img_idx + 1].done
    /\ LET result == img_tasks[img_idx + 1]
       IN  /\ img_images' = IF result.ok
                            THEN img_images \o parts_images(result.parts,
                                                            img_req.response_format,
                                                            img_idx + 1, 1)
                            ELSE img_images
           /\ img_errors' = IF result.ok THEN img_errors ELSE img_errors + 1
    /\ img_idx' = img_idx + 1
    /\ UNCHANGED <<img_pc, img_req, img_tasks, img_response>>
    /\ UNCHANGED outside_images

\* after the loop: 502 without images, else 200 with data
ImagesRespond ==
    /\ img_pc = "gather"
    /\ img_idx = Len(img_tasks)
    /\ img_response' = images_response(img_images, img_errors)
    /\ img_pc' = "done"
    /\ UNCHANGED <<img_req, img_tasks, img_idx, img_images, img_errors>>
    /\ UNCHANGED outside_images

\* the next request
ImagesEnd ==
    /\ img_pc = "done"
    /\ img_pc' = "idle"
    /\ img_req' = [handler |-> "generations", n |-> 0, response_format |-> "b64_json"]
    /\ img_tasks' = <<>>
    /\ img_idx' = 0
    /\ img_images' = <<>>
    /\ img_errors' = 0
    /\ img_response' = [status |-> 0, data |-> <<>>]
    /\ UNCHANGED outside_images

NextImages ==
    \/ \E h \in {"generations", "edits"}, n \in 0..MaxN, f \in {"b64_json", "url"},
          o \in {"ok", "bad_request", "no_token"} : ImagesStart(h, n, f, o)
    \/ \E i \in 1..MaxN, r \in TaskResults : ImagesTaskDone(i, r)
    \/ ImagesGather
    \/ ImagesRespond
    \/ ImagesEnd

SpecImages == InitEmptyPool /\ [][NextImages]_vars

\* ------------------------------------------------- HTTP client factory
\* Two handles of the factory (the managed one and a clone), a build_client
\* call on each, two update_proxy calls that may run at the same time.  A
\* configuration is the host and the port of a ProxySettings; the k-th
\* configuration written has host k and port k (0: None, as after new()).
Handles == 1..2
Builders == 1..2
Updaters == 1..2

\* the handle a build_client call is made on; update_proxy is called on the
\* managed handle
handle_of(b) == b

\* #[derive(Clone)]: Arc::clone, the clone points to the same cell
clone(cell) == cell

\* RwLock::read can go on: no writer is in
can_read(l) == l.writer = 0

\* RwLock::write that does not wait for the readers to leave
can_write_with_readers(l) == l.writer = 0

\* RwLock::write can go on: nobody is in
can_write(l) == l.writer = 0 /\ l.readers = {}

\* the factory is cloned (tauri State hands out the managed one)
CloneFactory ==
    /\ factory[2] = 0
    /\ factory' = [factory EXCEPT ![2] = clone(factory[1])]
    /\ UNCHANGED <<proxy_config, rw_lock, build_pc, build_cfg, update_pc, update_cfg, updates, returned>>
    /\ UNCHANGED outside_factory

\* build_client is called
BuildStart(b) ==
    /\ build_pc[b] = "idle"
    /\ factory[handle_of(b)] # 0
    /\ build_pc' = [build_pc EXCEPT ![b] = "lock"]
    /\ build_cfg' = [build_cfg EXCEPT ![b] = [started |-> returned, host |-> 0, port |-> 0]]
    /\ UNCHANGED <<factory, proxy_config, rw_lock, update_pc, update_cfg, updates, returned>>
    /\ UNCHANGED outside_factory

\* self.proxy_config.read()
BuildLock(b) ==
    /\ build_pc[b] = "lock"
    /\ can_read(rw_lock[factory[handle_of(b)]])
    /\ rw_lock' = [rw_lock EXCEPT ![factory[handle_of(b)]].readers = @ \cup {b}]
    /\ build_pc' = [build_pc EXCEPT ![b] = "host"]
    /\ UNCHANGED <<factory, proxy_config, build_cfg, update_pc, update_cfg, updates, returned>>
    /\ UNCHANGED outside_factory

\* create_proxy reads the settings through the guard, field after field
BuildReadHost(b) ==
    /\ build_pc[b] = "host"
    /\ build_cfg' = [build_cfg EXCEPT ![b].host = proxy_config[factory[handle_of(b)]].host]
    /\ build_pc' = [build_pc EXCEPT ![b] = "port"]
    /\ UNCHANGED <<factory, proxy_config, rw_lock, update_pc, update_cfg, updates, returned>>
    /\ UNCHANGED outside_factory

BuildReadPort(b) ==
    /\ build_pc[b] = "port"
    /\ build_cfg' = [build_cfg EXCEPT ![b].port = proxy_config[factory[handle_of(b)]].port]
    /\ build_pc' = [build_pc EXCEPT ![b] = "build"]
    /\ UNCHANGED <<factory, proxy_config, rw_lock, update_pc, update_cfg, updates, returned>>
    /\ UNCHANGED outside_factory

\* builder.build(): the client is made and the guard dropped
BuildReturn(b) ==
    /\ build_pc[b] = "build"
    /\ rw_lock' = [rw_lock EXCEPT ![factory[handle_of(b)]].readers = @ \ {b}]
    /\ build_pc' = [build_pc EXCEPT ![b] = "built"]
    /\ UNCHANGED <<factory, proxy_config, build_cfg, update_pc, update_cfg, updates, returned>>
    /\ UNCHANGED outside_factory

\* the client is used and dropped; the next build_client may come
BuildEnd(b) ==
    /\ build_pc[b] = "built"
    /\ build_pc' = [build_pc EXCEPT ![b] = "idle"]
    /\ build_cfg' = [build_cfg EXCEPT ![b] = [started |-> 0, host |-> 0, port |-> 0]]
    /\ UNCHANGED <<factory, proxy_config, rw_lock, update_pc, update_cfg, updates, returned>>
    /\ UNCHANGED outside_factory

\* update_proxy is called (save_proxy_settings)
UpdateStart(u) ==
    /\ update_pc[u] = "idle"
    /\ updates + Cardinality({x \in Updaters : update_pc[x] = "lock"}) < MaxUpdates
    /\ update_pc' = [update_pc EXCEPT ![u] = "lock"]
    /\ UNCHANGED <<factory, proxy_config, rw_lock, build_pc, build_cfg, update_cfg, updates, returned>>
    /\ UNCHANGED outside_factory

\* self.proxy_config.write()
UpdateLock(u) ==
    /\ update_pc[u] = "lock"
    /\ can_write(rw_lock[factory[1]])
    /\ rw_lock' = [rw_lock EXCEPT ![factory[1]].writer = u]
    /\ updates' = updates + 1
    /\ update_cfg' = [update_cfg EXCEPT ![u] = updates + 1]
    /\ update_pc' = [update_pc EXCEPT ![u] = "host"]
    /\ UNCHANGED <<factory, proxy_config, build_pc, build_cfg, returned>>
    /\ UNCHANGED outside_factory

\* *config = new_config.clone(): the fields are stored one after the other
UpdateWriteHost(u) ==
    /\ update_pc[u] = "host"
    /\ proxy_config' = [proxy_config EXCEPT ![factory[1]].host = update_cfg[u]]
    /\ update_pc' = [update_pc EXCEPT ![u] = "port"]
    /\ UNCHANGED <<factory, rw_lock, build_pc, build_cfg, update_cfg, updates, returned>>
    /\ UNCHANGED outside_factory

UpdateWritePort(u) ==
    /\ update_pc[u] = "port"
    /\ proxy_config' = [proxy_config EXCEPT ![factory[1]].port = update_cfg[u]]
    /\ update_pc' = [update_pc EXCEPT ![u] = "return"]
    /\ UNCHANGED <<factory, rw_lock, build_pc, build_cfg, update_cfg, updates, returned>>
    /\ UNCHANGED outside_factory

\* Ok(()): the guard is dropped
UpdateReturn(u) ==
    /\ update_pc[u] = "return"
    /\ rw_lock' = [rw_lock EXCEPT ![factory[1]].writer = 0]
    /\ returned' = update_cfg[u]
    /\ update_pc' = [update_pc EXCEPT ![u] = "idle"]
    /\ UNCHANGED <<factory, proxy_config, build_pc, build_cfg, update_cfg, updates>>
    /\ UNCHANGED outside_factory

NextFactory ==
    \/ CloneFactory
    \/ \E b \in Builders :
          \/ BuildStart(b)
          \/ BuildLock(b)
          \/ BuildReadHost(b)
          \/ BuildReadPort(b)
          \/ BuildReturn(b)
          \/ BuildEnd(b)
    \/ \E u \in Updaters :
          \/ UpdateStart(u)
          \/ UpdateLock(u)
          \/ UpdateWriteHost(u)
          \/ UpdateWritePort(u)
          \/ UpdateReturn(u)

SpecFactory == InitEmptyPool /\ [][NextFactory]_vars

\* ------------------------------------------------------- model routing
\* The client asks for one model; a mapping table is empty or maps that
\* model to an upstream model.
ClientModel == <<"gemini-3-flash">>
UpstreamModels == {<<"gemini-2.5-flash">>, <<"gemini-3-pro-image">>}
MappingTables == {{}} \cup {{<<ClientModel, m>>} : m \in UpstreamModels}

\* model_mapping::resolve_model_route: the tables are consulted in order, the
\* first hit wins, a miss gives the model back
Lookup(table, model) ==
    IF \E e \in table : e[1] = model
    THEN Some((CHOOSE e \in table : e[1] = model)[2])
    ELSE None
resolve_model_route(model, custom, openai, anthropic) ==
    IF Lookup(custom, model) # None THEN Lookup(custom, model)[1]
    ELSE IF Lookup(openai, model) # None THEN Lookup(openai, model)[1]
    ELSE IF Lookup(anthropic, model) # None THEN Lookup(anthropic, model)[1]
    ELSE model

\* model_mapping::map_claude_model_to_gemini: a Gemini model name is kept
map_claude_model_to_gemini(model) == model

\* the model and requestType of the body an attempt sends
SentConfig(config) == [model |-> config.final_model, requestType |-> config.request_type]
attempt_config(h, original_model, mapped_model) ==
    IF h = "claude"
    THEN SentConfig(resolve_request_config(mapped_model, map_claude_model_to_gemini(mapped_model)))
    ELSE SentConfig(resolve_request_config(original_model, mapped_model))

\* where a handler resolves the route: the OpenAI handlers before the loop
\* (openai.rs 155, 774), handle_messages and handle_generate in every
\* attempt (claude.rs 64, gemini.rs 43)
resolves_before_loop(h) == h \in OpenAIHandlers

\* a request arrives; the OpenAI handlers resolve the route here
RouteStart(h, n) ==
    /\ route_pc = "idle"
    /\ route_pc' = "attempt"
    /\ route_req' = [handler |-> h, max_attempts |-> n]
    /\ route_attempt' = 0
    /\ route_mapped' = IF resolves_before_loop(h)
                       THEN resolve_model_route(ClientModel, custom_mapping, {}, {})
                       ELSE <<>>
    /\ route_sent' = <<>>
    /\ UNCHANGED <<custom_mapping, openai_mapping, anthropic_mapping>>
    /\ UNCHANGED outside_route

\* one attempt: the body is built and sent; the attempt succeeds or fails
RouteAttempt(ok) ==
    /\ route_pc = "attempt"
    /\ LET mapped_model ==
               IF resolves_before_loop(route_req.handler) THEN route_mapped
               ELSE resolve_model_route(ClientModel, custom_mapping, openai_mapping,
                                        anthropic_mapping)
       IN  route_sent' = Append(route_sent,
                                attempt_config(route_req.handler, ClientModel, mapped_model))
    /\ IF ok \/ route_attempt + 1 >= route_req.max_attempts
       THEN route_pc' = "done" /\ UNCHANGED route_attempt
       ELSE route_pc' = "attempt" /\ route_attempt' = route_attempt + 1
    /\ UNCHANGED <<custom_mapping, openai_mapping, anthropic_mapping, route_req, route_mapped>>
    /\ UNCHANGED outside_route

\* the response is written
RouteEnd ==
    /\ route_pc = "done"
    /\ route_pc' = "idle"
    /\ route_req' = [handler |-> "chat", max_attempts |-> 1]
    /\ route_attempt' = 0
    /\ route_mapped' = <<>>
    /\ route_sent' = <<>>
    /\ UNCHANGED <<custom_mapping, openai_mapping, anthropic_mapping>>
    /\ UNCHANGED outside_route

\* a configuration reload rewrites a mapping table under its write lock
ReloadMapping(which, table) ==
    /\ custom_mapping' = IF which = "custom" THEN table ELSE custom_mapping
    /\ openai_mapping' = IF which = "openai" THEN table ELSE openai_mapping
    /\ anthropic_mapping' = IF which = "anthropic" THEN table ELSE anthropic_mapping
    /\ <<custom_mapping', openai_mapping', anthropic_mapping'>>
           # <<custom_mapping, openai_mapping, anthropic_mapping>>
    /\ UNCHANGED <<route_pc, route_req, route_attempt, route_mapped, route_sent>>
    /\ UNCHANGED outside_route

NextRoute ==
    \/ \E h \in Handlers, n \in 1..MAX_RETRY_ATTEMPTS : RouteStart(h, n)
    \/ \E ok \in BOOLEAN : RouteAttempt(ok)
    \/ RouteEnd
    \/ \E w \in {"custom", "openai", "anthropic"}, t \in MappingTables : ReloadMapping(w, t)

SpecRoute == InitEmptyPool /\ [][NextRoute]_vars

\* ------------------------------------------- Responses / Codex bodies
\* A body as far as its messages, instructions, input and prompt go.  A key
\* is "<absent>", or has a value: a string, or "<number>" for a value that is
\* neither a string nor an array.  messages is None or Some(array).
JsonAbsent == "<absent>"
JsonNumber == "<number>"
is_some(v) == v # JsonAbsent
is_str(v) == v \notin {JsonAbsent, JsonNumber}

\* Value::to_string of a value that is no string
value_to_string(v) == "42"

ChatMessage(role, content) == [role |-> role, content |-> content]

RequestBodies ==
    [messages : {None, Some(<<>>), Some(<<ChatMessage("user", "Hi")>>)},
     instructions : {JsonAbsent, JsonNumber, "", "Be brief"},
     input : {JsonAbsent, JsonNumber, "", "Hello"},
     prompt : {JsonAbsent, "Once"}]

\* handle_chat_completions, lines 74-120: the messages key of the body after
\* the conversion
chat_messages(body) ==
    LET is_responses_format ==
            body.messages = None /\ (is_some(body.instructions) \/ is_some(body.input))
        with_system ==
            IF is_str(body.instructions) /\ body.instructions # ""
            THEN Some(<<ChatMessage("system", body.instructions)>>)
            ELSE body.messages
        user_msg ==
            ChatMessage("user", IF is_str(body.input) THEN body.input
                                ELSE value_to_string(body.input))
    IN  IF ~is_responses_format THEN body.messages
        ELSE IF is_some(body.input) /\ with_system # None
        THEN Some(Append(with_system[1], user_msg))
        ELSE with_system

\* handle_completions, lines 435-676 for an input that is no array: the
\* messages key after the first conversion
completions_first(body) ==
    LET is_codex_style == is_some(body.input) \/ is_some(body.instructions)
        instructions == IF is_str(body.instructions) THEN body.instructions ELSE ""
    IN  IF is_codex_style
        THEN Some(IF instructions # "" THEN <<ChatMessage("system", instructions)>> ELSE <<>>)
        ELSE IF is_some(body.prompt)
        THEN Some(<<ChatMessage("user", body.prompt)>>)
        ELSE body.messages

\* handle_completions, lines 684-737: the messages key after the second
\* conversion
completions_messages(body) ==
    LET first == completions_first(body)
        has_codex_fields == is_some(body.instructions) \/ is_some(body.input)
        already_normalized == first # None /\ first[1] # <<>>
        system == IF is_str(body.instructions) /\ body.instructions # ""
                  THEN <<ChatMessage("system", body.instructions)>>
                  ELSE <<>>
        content == IF is_str(body.input) THEN body.input ELSE value_to_string(body.input)
        user == IF is_some(body.input) /\ content # ""
                THEN <<ChatMessage("user", content)>>
                ELSE <<>>
    IN  IF has_codex_fields /\ ~already_normalized
        THEN Some(system \o user)
        ELSE first

\* serde_json::from_value::<OpenAIRequest> and the fallback for an empty
\* list; messages_default says whether a body without messages is taken
\* as one with an empty list (OpenAIRequest is defined outside src/)
to_request(messages, messages_default) ==
    IF messages = None /\ ~messages_default
    THEN [status |-> 400, messages |-> <<>>]
    ELSE LET list == IF messages = None THEN <<>> ELSE messages[1]
         IN  [status |-> 200,
              messages |-> IF list = <<>> THEN <<ChatMessage("user", " ")>> ELSE list]

\* a handler receives a body and makes its OpenAIRequest
Normalize(h, body, messages_default) ==
    /\ ~normalized.called
    /\ LET r == to_request(IF h = "chat" THEN chat_messages(body)
                           ELSE completions_messages(body),
                           messages_default)
       IN  normalized' = [called |-> TRUE, handler |-> h, body |-> body,
                          status |-> r.status, messages |-> r.messages]
    /\ UNCHANGED outside_norm

\* the next request
NormalizeEnd ==
    /\ normalized.called
    /\ normalized' = [called |-> FALSE, handler |-> "chat",
                      body |-> [messages |-> None, instructions |-> JsonAbsent,
                                input |-> JsonAbsent, prompt |-> JsonAbsent],
                      status |-> 0, messages |-> <<>>]
    /\ UNCHANGED outside_norm

NextNormalize ==
    \/ ~normalized.called /\
          \E h \in OpenAIHandlers, b \in RequestBodies, d \in BOOLEAN : Normalize(h, b, d)
    \/ NormalizeEnd

SpecNormalize == InitEmptyPool /\ [][NextNormalize]_vars

\* ------------------------------------------------------- upstream client
\* A duration string is the sequence of its characters.
DigitChars == <<"0", "1", "2", "3", "4", "5", "6", "7", "8", "9">>
is_digit(c) == \E i \in 1..10 : DigitChars[i] = c
digit_value(c) == (CHOOSE i \in 1..10 : DigitChars[i] = c) - 1

\* the number a sequence of digits writes
RECURSIVE decimal(_)
decimal(digits) ==
    IF digits = <<>> THEN 0
    ELSE 10 * decimal(SubSeq(digits, 1, Len(digits) - 1)) + digit_value(digits[Len(digits)])

\* str::ends_with(pat)
str_ends_with(text, pat) ==
    Len(text) >= Len(pat) /\ SubSeq(text, Len(text) - Len(pat) + 1, Len(text)) = pat

\* str::trim_end_matches(pat): every trailing repetition is removed
RECURSIVE str_trim_end_matches(_, _)
str_trim_end_matches(text, pat) ==
    IF str_ends_with(text, pat)
    THEN str_trim_end_matches(SubSeq(text, 1, Len(text) - Len(pat)), pat)
    ELSE text

\* str::parse::<u64>().ok(): one or more digits
parse_u64(text) ==
    IF text # <<>> /\ \A i \in 1..Len(text) : is_digit(text[i])
    THEN Some(decimal(text))
    ELSE None

\* str::parse::<f64>().ok(): digits with at most one point and at least one
\* digit; the value is kept as its whole digits and its fraction digits
parse_f64(text) ==
    LET points == {i \in 1..Len(text) : text[i] = "."}
        point == IF points = {} THEN Len(text) + 1 ELSE CHOOSE i \in points : TRUE
        whole == SubSeq(text, 1, point - 1)
        fraction == SubSeq(text, point + 1, Len(text))
    IN  IF /\ Cardinality(points) <= 1
           /\ \A i \in 1..Len(text) : is_digit(text[i]) \/ text[i] = "."
           /\ Len(whole) + Len(fraction) >= 1
        THEN Some([whole |-> whole, fraction |-> fraction])
        ELSE None

\* (x * 1000.0) as u64: the product, cut to a whole number.  (On the
\* strings used here the f64 product is exact.)
times_1000_as_u64(x) ==
    LET padded == x.fraction \o <<"0", "0", "0">>
    IN  decimal(x.whole) * 1000 + decimal(SubSeq(padded, 1, 3))

\* parse_duration_ms with the test for s before the test for ms
parse_duration_ms_seconds_first(duration_str) ==
    IF str_ends_with(duration_str, <<"s">>)
    THEN LET x == parse_f64(str_trim_end_matches(duration_str, <<"s">>))
         IN  IF x = None THEN None ELSE Some(times_1000_as_u64(x[1]))
    ELSE IF str_ends_with(duration_str, <<"m", "s">>)
    THEN parse_u64(str_trim_end_matches(duration_str, <<"m", "s">>))
    ELSE None

\* UpstreamClient::parse_duration_ms
parse_duration_ms(duration_str) ==
    IF str_ends_with(duration_str, <<"m", "s">>)
    THEN parse_u64(str_trim_end_matches(duration_str, <<"m", "s">>))
    ELSE IF str_ends_with(duration_str, <<"s">>)
    THEN LET x == parse_f64(str_trim_end_matches(duration_str, <<"s">>))
         IN  IF x = None THEN None ELSE Some(times_1000_as_u64(x[1]))
    ELSE None

\* the strings of the unit test and of the comment of parse_duration_ms
Str1500ms == <<"1", "5", "0", "0", "m", "s">>
Str200ms == <<"2", "0", "0", "m", "s">>
Str1_5s == <<"1", ".", "5", "s">>
Str2s == <<"2", "s">>
StrCompound == <<"1", "h", "1", "6", "m", "0", ".", "6", "6", "7", "s">>
Str300ms == <<"3", "0", "0", "m", "s">>
Str5s == <<"5", "s">>
Str5_5s == <<"5", ".", "5", "s">>

DurationChars == {"1", "5", ".", "m", "s"}
DurationStrings ==
    (SeqsUpTo(DurationChars, MaxDuration) \ {<<>>})
        \cup {Str1500ms, Str200ms, Str1_5s, Str2s, StrCompound}

\* an error body: is it JSON, has it error.retryInfo, the string
\* error.retryInfo.retryDelay and the string error.quotaResetDelay (None:
\* the key is absent or no string)
ErrorBody(json, retryInfo, retryDelay, quotaResetDelay) ==
    [json |-> json, retryInfo |-> retryInfo, retryDelay |-> retryDelay,
     quotaResetDelay |-> quotaResetDelay]
NoJsonBody == ErrorBody(FALSE, FALSE, None, None)
ErrorBodies ==
    { NoJsonBody,
      ErrorBody(TRUE, FALSE, None, None),
      ErrorBody(TRUE, TRUE, Some(Str300ms), None),
      ErrorBody(TRUE, TRUE, Some(Str5s), None),
      ErrorBody(TRUE, TRUE, Some(Str5_5s), None),
      ErrorBody(TRUE, TRUE, Some(StrCompound), Some(Str300ms)),
      ErrorBody(TRUE, TRUE, None, Some(Str300ms)),
      ErrorBody(TRUE, FALSE, None, Some(Str5_5s)) }

\* UpstreamClient::parse_retry_delay
client_parse_retry_delay(error_text) ==
    IF ~error_text.json THEN None
    ELSE IF error_text.retryInfo /\ error_text.retryDelay # None
    THEN parse_duration_ms(error_text.retryDelay[1])
    ELSE IF error_text.quotaResetDelay # None
    THEN parse_duration_ms(error_text.quotaResetDelay[1])
    ELSE None

\* a call of parse_duration_ms
ParseDuration(duration_str) ==
    /\ ~duration.called
    /\ rc_pc = "idle"
    /\ duration' = [called |-> TRUE, duration_str |-> duration_str,
                  result |-> parse_duration_ms(duration_str)]
    /\ UNCHANGED <<rc_pc, rc_max, rc_creds, rc_given, rc_attempt, rc_calls, rc_result>>
    /\ UNCHANGED outside_client

ParseDurationEnd ==
    /\ duration.called
    /\ duration' = [called |-> FALSE, duration_str |-> <<>>, result |-> None]
    /\ UNCHANGED <<rc_pc, rc_max, rc_creds, rc_given, rc_attempt, rc_calls, rc_result>>
    /\ UNCHANGED outside_client

\* what an iteration of the loop meets: get_credentials fails, build_body
\* fails, the request fails in transport (status 0), or a response
CredentialsErr == [kind |-> "credentials"]
BuildBodyErr == [kind |-> "build_body"]
ClientResponse(status, error_text) == [kind |-> "response", status |-> status, body |-> error_text]
Iterations ==
    {CredentialsErr, BuildBodyErr}
        \cup {ClientResponse(st, NoJsonBody) : st \in {0, 200, 500, 404, 401}}
        \cup {ClientResponse(429, b) : b \in ErrorBodies}

\* the closures a caller may give: one that hands out the same account on
\* every call, one that hands out the next account of the pool on every call
CredentialClosures == {"same", "rotate"}
get_credentials(closure, given) ==
    IF closure = "same" THEN 1 ELSE (given % MaxPool) + 1

ClientCall(account, status, error_text, delay, slept) ==
    [account |-> account, status |-> status, body |-> error_text,
     delay |-> delay, slept |-> slept]

\* call_v1_internal_with_retry, lines 159-187: the time slept after a 429
retry_sleep(delay) ==
    IF delay # None /\ delay[1] <= 5000 THEN delay[1] + 200 ELSE NoSleep

\* call_v1_internal_with_retry is called
RetryStart(n, closure) ==
    /\ rc_pc = "idle"
    /\ ~duration.called
    /\ rc_pc' = "loop"
    /\ rc_max' = n
    /\ rc_creds' = closure
    /\ rc_given' = 0
    /\ rc_attempt' = 0
    /\ rc_calls' = <<>>
    /\ rc_result' = None
    /\ UNCHANGED duration
    /\ UNCHANGED outside_client

\* one iteration of `for attempt in 0..max_attempts`
RetryIteration(it) ==
    /\ rc_pc = "loop"
    /\ rc_attempt < rc_max
    /\ rc_attempt' = rc_attempt + 1
    /\ IF it = CredentialsErr
       THEN UNCHANGED <<rc_pc, rc_given, rc_calls, rc_result>>
       ELSE LET account == get_credentials(rc_creds, rc_given)
            IN  /\ rc_given' = rc_given + 1
                /\ IF it = BuildBodyErr
                   THEN /\ rc_pc' = "done"
                        /\ rc_result' = Some([ok |-> FALSE, status |-> 0])
                        /\ UNCHANGED rc_calls
                   ELSE IF it.status = 0
                   THEN /\ rc_calls' = Append(rc_calls, ClientCall(account, 0, NoJsonBody, None, NoSleep))
                        /\ UNCHANGED <<rc_pc, rc_result>>
                   ELSE IF is_success(it.status)
                   THEN /\ rc_calls' = Append(rc_calls, ClientCall(account, it.status, it.body, None, NoSleep))
                        /\ rc_pc' = "done"
                        /\ rc_result' = Some([ok |-> TRUE, status |-> it.status])
                   ELSE IF it.status = 429
                   THEN LET delay == client_parse_retry_delay(it.body)
                        IN  /\ rc_calls' = Append(rc_calls,
                                    ClientCall(account, 429, it.body, delay, retry_sleep(delay)))
                            /\ UNCHANGED <<rc_pc, rc_result>>
                   ELSE IF it.status \in {404, 403, 401}
                   THEN /\ rc_calls' = Append(rc_calls, ClientCall(account, it.status, it.body, None, NoSleep))
                        /\ UNCHANGED <<rc_pc, rc_result>>
                   ELSE /\ rc_calls' = Append(rc_calls, ClientCall(account, it.status, it.body, None, NoSleep))
                        /\ rc_pc' = "done"
                        /\ rc_result' = Some([ok |-> FALSE, status |-> it.status])
    /\ UNCHANGED <<duration, rc_max, rc_creds>>
    /\ UNCHANGED outside_client

\* the loop is over without a return: Err("Upstream call exhausted ...")
RetryExhausted ==
    /\ rc_pc = "loop"
    /\ rc_attempt >= rc_max
    /\ rc_pc' = "done"
    /\ rc_result' = Some([ok |-> FALSE, status |-> 0])
    /\ UNCHANGED <<duration, rc_max, rc_creds, rc_given, rc_attempt, rc_calls>>
    /\ UNCHANGED outside_client

\* the caller has the result; the next call may begin
RetryEnd ==
    /\ rc_pc = "done"
    /\ rc_pc' = "idle"
    /\ rc_max' = 0
    /\ rc_creds' = "same"
    /\ rc_given' = 0
    /\ rc_attempt' = 0
    /\ rc_calls' = <<>>
    /\ rc_result' = None
    /\ UNCHANGED duration
    /\ UNCHANGED outside_client

NextClient ==
    \/ (~duration.called /\ rc_pc = "idle") /\ \E d \in DurationStrings : ParseDuration(d)
    \/ ParseDurationEnd
    \/ \E n \in 0..MaxAttempts, c \in CredentialClosures : RetryStart(n, c)
    \/ \E it \in Iterations : RetryIteration(it)
    \/ RetryExhausted
    \/ RetryEnd

SpecClient == InitEmptyPool /\ [][NextClient]_vars

\* ------------------------------------------------------ Codex input items
\* An item of the input array: its type and its keys call_id, id and name
\* (JsonAbsent: the key is absent or no string).
InputItem(type, call_id, id, name) ==
    [type |-> type, call_id |-> call_id, id |-> id, name |-> name]
CallTypes == {"function_call", "local_shell_call", "web_search_call"}
OutputTypes == {"function_call_output", "custom_tool_call_output"}
InputItems ==
    { InputItem("function_call", "c1", JsonAbsent, "read_file"),
      InputItem("function_call", "c2", JsonAbsent, "write_file"),
      InputItem("function_call", JsonAbsent, "c1", "list_dir"),
      InputItem("function_call", "c1", "c2", JsonAbsent),
      InputItem("local_shell_call", "c1", JsonAbsent, JsonAbsent),
      InputItem("web_search_call", JsonAbsent, "c2", "search"),
      InputItem("function_call_output", "c1", JsonAbsent, JsonAbsent),
      InputItem("function_call_output", "c2", "c1", JsonAbsent),
      InputItem("function_call_output", JsonAbsent, "c1", JsonAbsent),
      InputItem("custom_tool_call_output", "c1", JsonAbsent, JsonAbsent),
      InputItem("message", JsonAbsent, JsonAbsent, JsonAbsent),
      InputItem("reasoning", JsonAbsent, JsonAbsent, JsonAbsent) }
InputArrays == SeqsUpTo(InputItems, MaxItems)

\* Option::unwrap_or
unwrap_or(v, default) == IF v = JsonAbsent THEN default ELSE v

\* item.get("call_id") .or_else(item.get("id")) .unwrap_or("unknown")
call_id_of_call(item) ==
    unwrap_or(IF item.call_id # JsonAbsent THEN item.call_id ELSE item.id, "unknown")

\* the name a call item is recorded with
name_of_call(item) ==
    IF item.type = "local_shell_call" THEN "shell"
    ELSE IF item.type = "web_search_call" THEN "google_search"
    ELSE unwrap_or(item.name, "unknown")

\* HashMap<String, String> as a function on the keys it holds
EmptyMap == [k \in {} |-> "unknown"]
map_insert(map, k, v) == [x \in DOMAIN map \cup {k} |-> IF x = k THEN v ELSE map[x]]

\* Pass 1 that records function_call items only
RECURSIVE build_call_id_to_name_function_only(_, _, _)
build_call_id_to_name_function_only(items, i, call_id_to_name) ==
    IF i > Len(items) THEN call_id_to_name
    ELSE build_call_id_to_name_function_only(items, i + 1,
            IF items[i].type = "function_call"
            THEN map_insert(call_id_to_name, call_id_of_call(items[i]), name_of_call(items[i]))
            ELSE call_id_to_name)

\* Pass 1: the call_id -> name map of the items from the i-th on
RECURSIVE build_call_id_to_name(_, _, _)
build_call_id_to_name(items, i, call_id_to_name) ==
    IF i > Len(items) THEN call_id_to_name
    ELSE build_call_id_to_name(items, i + 1,
            IF items[i].type \in CallTypes
            THEN map_insert(call_id_to_name, call_id_of_call(items[i]), name_of_call(items[i]))
            ELSE call_id_to_name)

\* a message of the list: role, the id and name of its tool call (assistant)
\* or of the call it answers (tool)
CodexMessage(role, call_id, name) == [role |-> role, call_id |-> call_id, name |-> name]

\* Pass 2 for one item: the messages pushed
item_messages(item, call_id_to_name) ==
    IF item.type = "message" THEN <<CodexMessage("user", JsonAbsent, JsonAbsent)>>
    ELSE IF item.type \in CallTypes
    THEN <<CodexMessage("assistant", call_id_of_call(item), name_of_call(item))>>
    ELSE IF item.type \in OutputTypes
    THEN LET call_id == unwrap_or(item.call_id, "unknown")
             name == IF call_id \in DOMAIN call_id_to_name
                     THEN call_id_to_name[call_id]
                     ELSE "shell"
         IN  <<CodexMessage("tool", call_id, name)>>
    ELSE <<>>

\* Pass 2: the messages of the items from the i-th on
RECURSIVE input_messages(_, _, _)
input_messages(items, i, call_id_to_name) ==
    IF i > Len(items) THEN <<>>
    ELSE item_messages(items[i], call_id_to_name)
            \o input_messages(items, i + 1, call_id_to_name)

\* handle_completions converts an input array
ConvertInput(items) ==
    /\ ~codex.called
    /\ codex' = [called |-> TRUE, input |-> items,
                 messages |-> input_messages(items, 1,
                                  build_call_id_to_name(items, 1, EmptyMap))]
    /\ UNCHANGED outside_codex

ConvertInputEnd ==
    /\ codex.called
    /\ codex' = [called |-> FALSE, input |-> <<>>, messages |-> <<>>]
    /\ UNCHANGED outside_codex

NextCodex ==
    \/ ~codex.called /\ \E items \in InputArrays : ConvertInput(items)
    \/ ConvertInputEnd

SpecCodex == InitEmptyPool /\ [][NextCodex]_vars

\* ------------------------------------------------- saving proxy settings
ProxySettings == [enabled : BOOLEAN, host : {"", "proxy.local", "proxy local"}, port : {0, 8080}]
DefaultSettings == [enabled |-> FALSE, host |-> "", port |-> 0]

\* ProxySettings::validate: Ok(()) or Err
validate(settings) ==
    /\ settings.host # ""
    /\ settings.port # 0
    /\ settings.host # "proxy local"       \* host.contains(' ')

\* save_proxy_settings that goes to the update at once
first_step_update(settings) == "update"

\* save_proxy_settings, lines 25-35: validation and test only when enabled
first_step(settings) == IF settings.enabled THEN "validate" ELSE "update"

\* the argument of factory.update_proxy
new_config(settings) == IF settings.enabled THEN Some(settings) ELSE None

\* save_proxy_settings returns Err from the step it is in
SaveFail ==
    /\ save_result' = save_pc
    /\ save_pc' = "done"

\* the command is invoked
SaveStart(settings) ==
    /\ save_pc = "idle"
    /\ save_pc' = first_step(settings)
    /\ save_settings' = settings
    /\ save_trace' = <<>>
    /\ save_result' = "running"
    /\ live_before' = live_config
    /\ file_before' = file_config
    /\ UNCHANGED <<live_config, file_config>>
    /\ UNCHANGED outside_save

\* settings.validate()?
SaveValidate ==
    /\ save_pc = "validate"
    /\ save_trace' = Append(save_trace, "validate")
    /\ IF validate(save_settings)
       THEN save_pc' = "test" /\ UNCHANGED save_result
       ELSE SaveFail
    /\ UNCHANGED <<save_settings, live_config, file_config, live_before, file_before>>
    /\ UNCHANGED outside_save

\* factory.test_proxy(&settings).await?: validates again, then reaches the
\* test URL through the proxy or does not
SaveTest(reachable) ==
    /\ save_pc = "test"
    /\ save_trace' = Append(save_trace, "test")
    /\ IF validate(save_settings) /\ reachable
       THEN save_pc' = "update" /\ UNCHANGED save_result
       ELSE SaveFail
    /\ UNCHANGED <<save_settings, live_config, file_config, live_before, file_before>>
    /\ UNCHANGED outside_save

\* factory.update_proxy(..)?: Err when the lock is poisoned
SaveUpdate(lock_ok) ==
    /\ save_pc = "update"
    /\ save_trace' = Append(save_trace, "update")
    /\ IF lock_ok
       THEN /\ live_config' = new_config(save_settings)
            /\ save_pc' = "load"
            /\ UNCHANGED save_result
       ELSE /\ SaveFail
            /\ UNCHANGED live_config
    /\ UNCHANGED <<save_settings, file_config, live_before, file_before>>
    /\ UNCHANGED outside_save

\* config::load_app_config()?
SaveLoad(ok) ==
    /\ save_pc = "load"
    /\ save_trace' = Append(save_trace, "load")
    /\ IF ok
       THEN save_pc' = "persist" /\ UNCHANGED save_result
       ELSE SaveFail
    /\ UNCHANGED <<save_settings, live_config, file_config, live_before, file_before>>
    /\ UNCHANGED outside_save

\* config.network_proxy = settings; config::save_app_config(&config)?
SavePersist(ok) ==
    /\ save_pc = "persist"
    /\ save_trace' = Append(save_trace, "persist")
    /\ IF ok
       THEN /\ file_config' = save_settings
            /\ save_pc' = "done"
            /\ save_result' = "ok"
       ELSE /\ SaveFail
            /\ UNCHANGED file_config
    /\ UNCHANGED <<save_settings, live_config, live_before, file_before>>
    /\ UNCHANGED outside_save

\* the command has returned; the next one may be invoked
SaveEnd ==
    /\ save_pc = "done"
    /\ save_pc' = "idle"
    /\ save_settings' = DefaultSettings
    /\ save_trace' = <<>>
    /\ save_result' = "running"
    /\ live_before' = live_config
    /\ file_before' = file_config
    /\ UNCHANGED <<live_config, file_config>>
    /\ UNCHANGED outside_save

NextSave ==
    \/ save_pc = "idle" /\ \E settings \in ProxySettings : SaveStart(settings)
    \/ SaveValidate
    \/ \E reachable \in BOOLEAN : SaveTest(reachable)
    \/ \E lock_ok \in BOOLEAN : SaveUpdate(lock_ok)
    \/ \E ok \in BOOLEAN : SaveLoad(ok)
    \/ \E ok \in BOOLEAN : SavePersist(ok)
    \/ SaveEnd

SpecSave == InitEmptyPool /\ [][NextSave]_vars

\* ------------------------------------------------------------ line buffer
\* An upstream body is a sequence of pieces (see the Gemini translator), one
\* of them the newline; it arrives cut into chunks.
Newline == "\n"
JsonTextPart == "{\"candidates\":[{\"content\":{\"parts\":[{\"text\":\"hi\"}]}}]}"
BodyPieces(which) ==
    IF which = "claude"
    THEN {Newline, "data:", " ", "[DONE]", JsonPlain, JsonTextPart}
    ELSE {Newline, "data:", " ", "[DONE]", JsonResponse, ":ping"}

\* process_sse_line, lines 66-87: what kind of line the text is
claude_line_of(line) ==
    IF ~starts_with_data(line) THEN OtherLine("comment")
    ELSE LET data_str == trim(SubSeq(line, 3, Len(line)))
         IN  IF data_str = <<>> THEN OtherLine("comment")
             ELSE IF data_str = <<"[DONE]">> THEN OtherLine("done")
             ELSE IF data_str = <<JsonTextPart>> THEN JsonLine(<<"text">>, FALSE)
             ELSE IF from_str(data_str).ok THEN JsonLine(<<>>, FALSE)
             ELSE OtherLine("bad_json")

\* the body of `while let Some(pos) = ..` for one line (line_raw is the line
\* without its newline)
line_events(which, line_raw, st) ==
    IF which = "gemini" THEN Emitted(gemini_line(line_raw), st)
    ELSE IF ~from_utf8_ok(line_raw) \/ trim(line_raw) = <<>> THEN Emitted(<<>>, st)
    ELSE process_sse_line(claude_line_of(trim(line_raw)), st)

\* buffer.iter().position(|&b| b == b'\n'): 0 for None
position_newline(buffer) ==
    LET at == {i \in 1..Len(buffer) : buffer[i] = Newline}
    IN  IF at = {} THEN 0 ELSE CHOOSE i \in at : \A j \in at : i <= j

\* the inner while loop: every complete line is taken out of the buffer
RECURSIVE drain(_, _, _, _)
drain(which, buffer, st, out) ==
    LET pos == position_newline(buffer)
    IN  IF pos = 0 THEN [buffer |-> buffer, state |-> st, out |-> out]
        ELSE LET r == line_events(which, SubSeq(buffer, 1, pos - 1), st)
             IN  drain(which, SubSeq(buffer, pos + 1, Len(buffer)), r.state, out \o r.chunks)

\* a buffer that holds the latest chunk only
extend_from_slice_latest(buffer, chunk) == chunk

\* buffer.extend_from_slice(&chunk)
extend_from_slice(buffer, chunk) == buffer \o chunk

\* a translator is given an upstream stream
ChunksStart(which) ==
    /\ ck_pc = "idle"
    /\ ck_pc' = "open"
    /\ ck_which' = which
    /\ UNCHANGED <<ck_received, ck_chunks, ck_buffer, ck_state, ck_out>>
    /\ UNCHANGED outside_chunks

\* gemini_stream.next() is Some(Ok(chunk))
ChunkArrives(chunk) ==
    /\ ck_pc = "open"
    /\ Len(ck_received) + Len(chunk) <= MaxBytes
    /\ LET d == drain(ck_which, extend_from_slice(ck_buffer, chunk), ck_state, ck_out)
       IN  /\ ck_buffer' = d.buffer
           /\ ck_state' = d.state
           /\ ck_out' = d.out
    /\ ck_received' = ck_received \o chunk
    /\ ck_chunks' = ck_chunks + 1
    /\ UNCHANGED <<ck_pc, ck_which>>
    /\ UNCHANGED outside_chunks

\* gemini_stream.next() is None: the Claude translator yields what
\* emit_force_stop gives; the buffer is dropped with what is left in it
ChunksEnd ==
    /\ ck_pc = "open"
    /\ ck_pc' = "closed"
    /\ IF ck_which = "claude"
       THEN LET r == emit_force_stop(ck_state)
            IN  ck_out' = ck_out \o r.chunks /\ ck_state' = r.state
       ELSE UNCHANGED <<ck_out, ck_state>>
    /\ UNCHANGED <<ck_which, ck_received, ck_chunks, ck_buffer>>
    /\ UNCHANGED outside_chunks

\* the next stream
ChunksNew ==
    /\ ck_pc = "closed"
    /\ ck_pc' = "idle"
    /\ ck_which' = "claude"
    /\ ck_received' = <<>>
    /\ ck_chunks' = 0
    /\ ck_buffer' = <<>>
    /\ ck_state' = StreamingState_new
    /\ ck_out' = <<>>
    /\ UNCHANGED outside_chunks

\* the chunks a body may come in: one piece or two
Chunks(which) ==
    {<<a>> : a \in BodyPieces(which)} \cup {<<a, b>> : a, b \in BodyPieces(which)}

NextChunks ==
    \/ \E which \in {"claude", "gemini"} : ChunksStart(which)
    \/ ck_pc = "open" /\ \E chunk \in Chunks(ck_which) : ChunkArrives(chunk)
    \/ ChunksEnd
    \/ ChunksNew

SpecChunks == InitEmptyPool /\ [][NextChunks]_vars

\* =================================================================== claims
IsCall(i) == log[i].type = "call"
InChain == pc \in {"pick", "call", "peek"}

\* C1: in every dispatcher a 429 whose body contains QUOTA_EXHAUSTED ends the
\* request at once: the client gets that status and body, and neither a pick
\* nor an upstream call follows it, whatever else the body carries.
C1_QuotaExhaustedEndsRequest ==
    \A i \in 1..Len(log) :
        (IsCall(i) /\ log[i].outcome.status = 429
                   /\ contains_QUOTA_EXHAUSTED(log[i].outcome.body))
        => /\ pc = "done"
           /\ client.status = 429
           /\ client.body = log[i].outcome.body
           /\ \A j \in (i + 1)..Len(log) : log[j].type \notin {"pick", "call"}

\* C2: with a pool of exactly one account, a first response 429 with the hint
\* retryDelay 300ms is followed by a sleep of 500 ms and a second upstream
\* call with the same account, whose 200 is returned to the client.
C2_HintRetriesSameAccount ==
    \A i \in 1..Len(log) :
        (IsCall(i) /\ log[i].attempt = 0 /\ pool_size = 1 /\ Len(pool) = 1
                   /\ log[i].outcome.status = 429
                   /\ parse_retry_delay(log[i].outcome.body) = 300
                   /\ ~contains_QUOTA_EXHAUSTED(log[i].outcome.body))
        => /\ \E j \in (i + 1)..Len(log) : log[j] = SleepEv(0, 500)
           /\ pc # "done" \/ calls >= 2
           /\ \A j \in (i + 1)..Len(log) :
                 IsCall(j) => /\ log[j].email = log[i].email
                              /\ (log[j].outcome.status = 200 /\ pc = "done"
                                    => client.status = 200)

\* C3: each request makes at most max_attempts picks and at most max_attempts
\* upstream calls, where max_attempts is the pool size sampled before the
\* first attempt, clamped to 1..3, and stays the same through the chain.
C3_AttemptBudget ==
    /\ [](pc # "idle" =>
            /\ picks <= max_attempts
            /\ calls <= max_attempts
            /\ max_attempts = (IF pool_size = 0 THEN 1
                               ELSE IF pool_size > 3 THEN 3 ELSE pool_size))
    /\ [][/\ (~InChain /\ pc' # pc) => pool_size' = Len(pool)
          /\ InChain => (max_attempts' = max_attempts /\ pool_size' = pool_size)]_vars

\* the pool grew during a chain that used up a budget smaller than the cap
C3_Witness ==
    /\ pc = "done"
    /\ Len(pool) > pool_size
    /\ max_attempts < MAX_RETRY_ATTEMPTS
    /\ picks = max_attempts
    /\ calls = max_attempts

RetryableStatus(o) ==
    \/ o.status \in {500, 503, 529}
    \/ o.status = 429 /\ ~contains_QUOTA_EXHAUSTED(o.body)

\* C4: a 429 without QUOTA_EXHAUSTED, a 500, a 503 or a 529 received while
\* attempts remain does not end the request: the account is marked
\* rate-limited right away and the next attempt is made.  (How long the
\* strategy sleeps in between is left to the claim about the delays.)
C4_RetryableStatusIsAbsorbed ==
    \A i \in 1..Len(log) :
        (IsCall(i) /\ RetryableStatus(log[i].outcome)
                   /\ log[i].attempt + 1 < max_attempts)
        => /\ i < Len(log)
           /\ log[i + 1] = MarkEv(log[i].attempt, log[i].email, log[i].outcome.status)
           /\ \/ pc = "pick" /\ attempt = log[i].attempt + 1
              \/ \E j \in (i + 1)..Len(log) :
                    log[j].type = "pick" /\ log[j].attempt = log[i].attempt + 1

OtherStatus(st) ==
    /\ st # 0
    /\ st < 200 \/ st > 299
    /\ st \notin {429, 500, 503, 529, 401, 403}

\* C5: an upstream response whose status is neither 2xx nor 429, 500, 503,
\* 529, 401, 403 goes to the client with its status and body after exactly
\* that attempt; nothing (mark, sleep, pick, call) follows it.
C5_OtherStatusPassesThrough ==
    \A i \in 1..Len(log) :
        (IsCall(i) /\ OtherStatus(log[i].outcome.status))
        => /\ i = Len(log)
           /\ pc = "done"
           /\ client.status = log[i].outcome.status
           /\ client.body = log[i].outcome.body
           /\ calls = log[i].attempt + 1
           /\ picks = log[i].attempt + 1

\* a 404 on the second attempt, after a retried first one
C5_Witness ==
    /\ pc = "done"
    /\ client.status = 404
    /\ attempt = 1
    /\ handler = "completions"

\* the last attempt the budget allows failed in a retryable way
LastAttemptFailed ==
    /\ pc = "done"
    /\ \E i \in 1..Len(log) :
          /\ log[i].attempt = max_attempts - 1
          /\ \/ log[i].type = "peekfail"
             \/ IsCall(i) /\ log[i].outcome.status = 0
             \/ IsCall(i) /\ RetryableStatus(log[i].outcome)
             \/ IsCall(i) /\ log[i].outcome.status \in {401, 403}

\* C6: when every attempt failed in a retryable way the client gets 429 with
\* the message "All N attempts failed. Last error: <e>", N = max_attempts and
\* <e> the error of the last attempt.
C6_AllAttemptsFailedMessage ==
    LastAttemptFailed =>
        /\ client.status = 429
        /\ client.body = [text |-> "All N attempts failed. Last error: ",
                          n |-> max_attempts, last |-> last_error]

\* C7: a failed pick, in the first or a later attempt, ends the request with
\* 503: no upstream call in that attempt, no further attempt; with an empty
\* pool the request makes one pick and no upstream call.
C7_PickFailureIs503 ==
    /\ \A i \in 1..Len(log) :
          (log[i].type = "pick" /\ log[i].result = NoAccount)
          => /\ i = Len(log)
             /\ pc = "done"
             /\ client.status = 503
             /\ picks = log[i].attempt + 1
             /\ calls = log[i].attempt
    /\ (pc = "done" /\ Len(pool) = 0)
          => (picks = 1 /\ calls = 0 /\ client.status = 503)

\* the pick of a later attempt failed
C7_Witness ==
    /\ pc = "done"
    /\ client.status = 503
    /\ attempt >= 1
    /\ log[Len(log)].type = "pick"

\* C8: on a 401 or 403 the account is marked rate-limited before the next
\* pick, and the next pick forces rotation.
C8_AuthErrorMarksAndRotates ==
    \A i \in 1..Len(log) :
        (IsCall(i) /\ log[i].outcome.status \in {401, 403}
                   /\ log[i].attempt + 1 < max_attempts)
        => /\ i < Len(log)
           /\ log[i + 1] = MarkEv(log[i].attempt, log[i].email, log[i].outcome.status)
           /\ \A j \in (i + 1)..Len(log) : log[j].type = "pick" => log[j].force

\* C9: in the streaming OpenAI handlers a failed peek (error event, stream
\* error, empty stream, timeout) sends nothing to the client; the next
\* attempt picks with forced rotation, and when no attempt remains the
\* request ends with the all-attempts-failed 429.
C9_PeekFailureRetries ==
    /\ \A i \in 1..Len(log) :
          log[i].type = "peekfail" =>
            IF log[i].attempt + 1 < max_attempts
            THEN \/ /\ i = Len(log)
                    /\ pc = "pick"
                    /\ attempt = log[i].attempt + 1
                    /\ client = NoResponse
                 \/ /\ i < Len(log)
                    /\ log[i + 1].type = "pick"
                    /\ log[i + 1].attempt = log[i].attempt + 1
                    /\ log[i + 1].force
            ELSE /\ i = Len(log)
                 /\ pc = "done"
                 /\ client.status = 429
                 /\ last_error.kind = "peek"
                 /\ client = exhausted_response(handler, max_attempts, last_error, last_email)
    /\ pc = "peek" => (client = NoResponse /\ delivered = <<>>)
    /\ (pc = "streaming" /\ handler \in OpenAIHandlers) => first_data_chunk.kind = "data"

\* a failed peek was followed by the pick of the next attempt
C9_Witness ==
    \E i \in 1..Len(log) :
        /\ log[i].type = "peekfail"
        /\ i < Len(log)
        /\ log[i + 1].type = "pick"

\* C10: after a successful peek the client receives the first real chunk and
\* then every later item of the mapped stream in order: nothing lost,
\* repeated or reordered, and nothing the peek skipped.
C10_StreamAfterPeek ==
    (handler \in OpenAIHandlers /\ first_data_chunk # NoChunk) =>
        /\ first_data_chunk.kind = "data"
        /\ \A i \in 1..Len(delivered) : delivered[i].id = first_data_chunk.id + i - 1
        /\ delivered # <<>> =>
              /\ delivered[1] = first_data_chunk
              /\ Len(delivered) = yielded - first_data_chunk.id + 1
        /\ delivered = <<>> => yielded = first_data_chunk.id

\* a heartbeat was skipped, then the first chunk and a later one delivered
C10_Witness ==
    /\ handler = "chat"
    /\ first_data_chunk.id = 2
    /\ Len(delivered) = 2

\* C11: the peek of one attempt is over 60 s after its start, whatever the
\* upstream sends: heartbeats and empty chunks do not extend it.
C11_PeekOverallDeadline ==
    pc = "peek" => peek_elapsed < PEEK_TIMEOUT_S

\* C12: in a streaming request the success of an account is recorded only
\* after the peek found a first real chunk of its stream (never while the peek
\* is still running, never in an attempt whose peek failed), and every
\* streaming response handed to the client has the success of its account
\* recorded before it.
C12_MarkSuccessAfterPeek ==
    is_stream =>
        /\ \A i \in 1..Len(log) :
              log[i].type = "success" =>
                /\ ~(pc = "peek" /\ attempt = log[i].attempt)
                /\ \A j \in 1..Len(log) :
                      ~(log[j].type = "peekfail" /\ log[j].attempt = log[i].attempt)
        /\ pc = "streaming" => \E i \in 1..Len(log) : log[i] = SuccessEv(attempt, email)

\* the Ok items of the translated stream
RECURSIVE Events(_)
Events(out) ==
    IF out = <<>> THEN <<>>
    ELSE IF Head(out) = "Err" THEN Events(Tail(out))
    ELSE <<Head(out)>> \o Events(Tail(out))

RECURSIVE Count(_, _)
Count(out, ev) ==
    IF out = <<>> THEN 0
    ELSE (IF Head(out) = ev THEN 1 ELSE 0) + Count(Tail(out), ev)

\* C13: whatever the upstream sends (nothing, a cut-off body, a transport
\* error, [DONE] more than once, finishReason and then [DONE]), the translated
\* stream holds message_stop exactly once when it ends, and never more than
\* once before.
C13_MessageStopExactlyOnce ==
    /\ Count(claude_out, "message_stop") <= 1
    /\ claude_pc = "closed" => Count(claude_out, "message_stop") = 1

\* [DONE] came twice after content, and the body then ended
C13_Witness ==
    /\ claude_pc = "closed"
    /\ claude_lines = 3
    /\ claude_out = <<"message_start", "content_block_start", "content_block_delta",
                      "content_block_stop", "message_delta", "message_stop">>
    /\ state.message_stop_sent

\* the automaton of  message_start (content_block_start content_block_delta*
\* content_block_stop)* message_delta? message_stop ; "reject" once left
WellFormedStep(q, ev) ==
    IF q = "begin" /\ ev = "message_start" THEN "message"
    ELSE IF q = "message" /\ ev = "content_block_start" THEN "block"
    ELSE IF q = "block" /\ ev = "content_block_delta" THEN "block"
    ELSE IF q = "block" /\ ev = "content_block_stop" THEN "message"
    ELSE IF q = "message" /\ ev = "message_delta" THEN "delta"
    ELSE IF q \in {"message", "delta"} /\ ev = "message_stop" THEN "end"
    ELSE "reject"

RECURSIVE WellFormedRun(_, _)
WellFormedRun(q, evs) ==
    IF evs = <<>> THEN q
    ELSE WellFormedRun(WellFormedStep(q, Head(evs)), Tail(evs))

\* C14: the events of the translated stream always are a prefix of, and at
\* the end are, a word of  message_start (content_block_start
\* content_block_delta* content_block_stop)* message_delta? message_stop.
C14_WellFormedEvents ==
    /\ WellFormedRun("begin", Events(claude_out)) # "reject"
    /\ claude_pc = "closed" => WellFormedRun("begin", Events(claude_out)) = "end"

\* C15: within one retry chain every pick after the first is made with
\* force_rotate set, no two picks of the chain return the same account, and a
\* chain on a pool of three that ends on a 503 has made three picks.
C15_ForcedRotationDistinctAccounts ==
    /\ \A i \in 1..Len(log) :
          (log[i].type = "pick" /\ log[i].attempt > 0) => log[i].force
    /\ \A i, j \in 1..Len(log) :
          (i < j /\ log[i].type = "pick" /\ log[j].type = "pick"
                 /\ log[i].result # NoAccount)
          => log[j].result # log[i].result
    /\ (pc = "done" /\ pool_size = 3 /\ Len(log) > 0 /\ IsCall(Len(log))
            /\ log[Len(log)].outcome.status = 503)
          => picks = 3

\* C16: a request answered 200 by an OpenAI handler leaves its session bound
\* to the account that served it, and the first pick of the next request of
\* the session returns that account as long as it is not rate-limited, and
\* another account (or none) when it is.
C16_StickySession ==
    /\ []((handler \in OpenAIHandlers /\ pc \in {"done", "streaming"} /\ client.status = 200)
            => sticky = client.email)
    /\ [][(pc = "pick" /\ pc' # "pick" /\ attempt = 0 /\ handler \in OpenAIHandlers
                /\ sticky # NoAccount)
            => IF sticky \notin limited
               THEN pc' = "call" /\ email' = sticky
               ELSE pc' = "done" \/ email' # sticky]_vars

\* a request served in its first attempt by the account its session was
\* bound to: the pick left the cursor alone, which a pick by the cursor,
\* advancing it past the chosen account, would not have done
C16_Witness ==
    /\ handler \in OpenAIHandlers
    /\ pc = "done"
    /\ client.status = 200
    /\ picks = 1
    /\ Len(pool) = pool_size
    /\ client.email = sticky
    /\ cursor # client.email % Len(pool)

\* the delay the retry after outcome o of zero-based attempt a is to wait, ms
ClaimedDelay(o, a) ==
    IF o.status = 429 /\ parse_retry_delay(o.body) # NoHint
    THEN Min(parse_retry_delay(o.body) + 200, 10000)
    ELSE IF o.status = 429 THEN 1000 * (a + 1)
    ELSE IF o.status = 500 THEN 500 * (a + 1)
    ELSE Min(1000 * Pow2(a), 8000)

\* C17: a 429, 500, 503 or 529 of attempt a that is followed by a retry is
\* followed first by a sleep of min(hint + 200, 10000) ms for a 429 with hint,
\* 1000(a+1) for a 429 without, 500(a+1) for a 500, min(1000 * 2^a, 8000) for
\* a 503 or 529; for a in 0..2 these delays are at most 10 s and do not
\* decrease with a.
C17_BackoffDelays ==
    /\ \A i \in 1..Len(log) :
          (/\ IsCall(i)
           /\ log[i].outcome.status \in {429, 500, 503, 529}
           /\ \/ pc = "pick" /\ attempt = log[i].attempt + 1
              \/ \E j \in (i + 1)..Len(log) :
                    log[j].type = "pick" /\ log[j].attempt = log[i].attempt + 1)
          => \E j \in (i + 1)..Len(log) :
                log[j] = SleepEv(log[i].attempt, ClaimedDelay(log[i].outcome, log[i].attempt))
    /\ \A o \in UpstreamOutcomes : \A a \in 0..(MAX_RETRY_ATTEMPTS - 1) :
          o.status \in {429, 500, 503, 529} =>
            /\ apply_retry_strategy(determine_retry_strategy(o.status, o.body), a)
                  = ClaimedDelay(o, a)
            /\ ClaimedDelay(o, a) <= 10000
            /\ a > 0 => ClaimedDelay(o, a - 1) <= ClaimedDelay(o, a)

\* C18: every body sent upstream has exactly the top-level keys project,
\* requestId, model, userAgent, requestType, request, and a requestId made of
\* the prefix agent- and a UUID.
C18_EnvelopeShape ==
    \A i \in 1..Len(sent) :
        /\ sent[i].keys = {"project", "requestId", "model", "userAgent", "requestType", "request"}
        /\ sent[i].requestId.prefix = "agent-"

\* C19: no two bodies sent upstream carry the same requestId, be they of
\* successive attempts or of the parallel calls of one image request.
C19_FreshRequestId ==
    \A i, j \in 1..Len(sent) : i # j => sent[i].requestId # sent[j].requestId

\* a line, surrounding white space aside, is  data: <json>
IsDataJson(line) ==
    /\ Len(line) >= 3
    /\ line[1] = "data:" /\ line[2] = " "
    /\ line[Len(line)] \in JsonTexts
    /\ \A i \in 3..(Len(line) - 1) : line[i] = " "

\* the JSON value an event  data: <text>  carries: with or without a
\* top-level response field
CarriesResponse(text) == text \in {JsonResponse, JsonResponseSpaced}

\* C20: the translator yields exactly one event for every line that is not
\* blank and none for a blank one, so that the k-th event belongs to the k-th
\* such line; for  data: <json>  the event is  data: <inner>  and a blank
\* line, <inner> being the response field of the json when it has one and
\* the json otherwise; for  data: [DONE]  it is  data: [DONE] ; a line that
\* does not start with  data:  is forwarded with its content.  (Lines are
\* taken without the white space around them, as the translator trims it.)
C20_GeminiLineTranslation ==
    LET line == trim(gemini_step.line)
        events == gemini_step.events
    IN  /\ gemini_events = gemini_lines
        /\ (from_utf8_ok(gemini_step.line) /\ line = <<>>) => events = <<>>
        /\ line # <<>> =>
              /\ Len(events) = 1
              /\ from_utf8_ok(line) => events[1].end = "\n\n"
              /\ (from_utf8_ok(line) /\ IsDataJson(line)) =>
                    /\ Len(events[1].text) = 3
                    /\ SubSeq(events[1].text, 1, 2) = <<"data:", " ">>
                    /\ events[1].text[3] \in JsonTexts
                    /\ ~CarriesResponse(events[1].text[3])
                    /\ events[1].text[3] = JsonPlain
              /\ line = <<"data:", " ", "[DONE]">> =>
                    events[1].text = <<"data:", " ", "[DONE]">>
              /\ (from_utf8_ok(line) /\ ~(Len(line) >= 2 /\ line[1] = "data:" /\ line[2] = " ")) =>
                    events[1].text = line
              /\ ~from_utf8_ok(line) => events[1].text = gemini_step.line

\* the second line of a body was a wrapped data line and came out unwrapped
C20_Witness ==
    /\ gemini_lines = 2
    /\ gemini_step.line = <<"data:", " ", JsonResponseSpaced>>
    /\ gemini_step.events = <<SseEvent(<<"data:", " ", JsonPlain>>, "\n\n")>>

\* the allowlist of high-quality models: gemini-2.5-flash and gemini-1.5-pro,
\* as they are or followed by a dash and more
Allowlisted(m) ==
    /\ m[1] \in {"gemini-2.5-flash", "gemini-1.5-pro"}
    /\ Len(m) >= 2 => m[2] \in DashSuffixes

\* C21: the rules of resolve_request_config are taken top-down: a mapped
\* model beginning with gemini-3-pro-image gives image_gen without search
\* and with an image_config, also for an original model ending in -online;
\* else an original model ending in -online or an allowlisted mapped model
\* gives web_search with search; else agent without search.  Search is
\* injected exactly for web_search, and there is an image_config exactly
\* for image_gen.
C21_ResolveRules ==
    resolved.config # <<>> =>
        LET c == resolved.config[1]
            o == resolved.original_model
            m == resolved.mapped_model
        IN  /\ IF m[1] = "gemini-3-pro-image"
               THEN c.request_type = "image_gen" /\ ~c.inject_google_search
                    /\ c.image_config # <<>>
               ELSE IF o[Len(o)] = "-online" \/ Allowlisted(m)
               THEN c.request_type = "web_search" /\ c.inject_google_search
               ELSE c.request_type = "agent" /\ ~c.inject_google_search
            /\ c.inject_google_search <=> c.request_type = "web_search"
            /\ c.image_config # <<>> <=> c.request_type = "image_gen"

\* an image model asked for with -online: image_gen, no search
C21_Witness ==
    /\ resolved.original_model = <<"gemini-3-pro-image", "-online">>
    /\ resolved.mapped_model = <<"gemini-3-pro-image">>
    /\ resolved.config # <<>>
    /\ resolved.config[1].request_type = "image_gen"
    /\ ~resolved.config[1].inject_google_search

\* a name without its last piece when that piece is -online
WithoutOneOnline(m) ==
    IF m[Len(m)] = "-online" THEN SubSeq(m, 1, Len(m) - 1) ELSE m

\* a name without any of the -online pieces it ends with
RECURSIVE WithoutTrailingOnline(_)
WithoutTrailingOnline(m) ==
    IF Len(m) >= 2 /\ m[Len(m)] = "-online"
    THEN WithoutTrailingOnline(SubSeq(m, 1, Len(m) - 1))
    ELSE m

ClaimedAspect(o) ==
    IF \E i \in DOMAIN o : o[i] = "-16x9" THEN "16:9"
    ELSE IF \E i \in DOMAIN o : o[i] = "-9x16" THEN "9:16"
    ELSE IF \E i \in DOMAIN o : o[i] = "-4x3" THEN "4:3"
    ELSE IF \E i \in DOMAIN o : o[i] = "-3x4" THEN "3:4"
    ELSE "1:1"

\* C23: for an image model the aspect ratio comes from the suffix of the
\* original model (-16x9, -9x16, -4x3, -3x4, else 1:1), imageSize is 4K
\* exactly when -4k or -hd is there and is absent otherwise, and
\* final_model is gemini-3-pro-image without any suffix.
C23_ImageConfig ==
    (resolved.config # <<>> /\ resolved.config[1].request_type = "image_gen") =>
        LET c == resolved.config[1]
            o == resolved.original_model
            hd == \E i \in DOMAIN o : o[i] \in {"-4k", "-hd"}
        IN  /\ c.image_config # <<>>
            /\ c.image_config[1].aspectRatio = ClaimedAspect(o)
            /\ hd => DOMAIN c.image_config[1] = {"aspectRatio", "imageSize"}
                      /\ c.image_config[1].imageSize = "4K"
            /\ ~hd => DOMAIN c.image_config[1] = {"aspectRatio"}
            /\ c.final_model = <<"gemini-3-pro-image">>

\* gemini-3-pro-image-16x9-4k
C23_Witness ==
    /\ resolved.original_model = <<"gemini-3-pro-image", "-16x9", "-4k">>
    /\ resolved.config # <<>>
    /\ resolved.config[1].request_type = "image_gen"
    /\ resolved.config[1].final_model = <<"gemini-3-pro-image">>
    /\ resolved.config[1].image_config = <<[aspectRatio |-> "16:9", imageSize |-> "4K"]>>

\* the number of googleSearch entries of a tools value
RECURSIVE SearchEntries(_)
SearchEntries(items) ==
    IF items = <<>> THEN 0
    ELSE (IF Head(items) \in {"googleSearch", "googleSearch:enhancedContent"} THEN 1 ELSE 0)
         + SearchEntries(Tail(items))

\* C24: inject_google_search_tool makes the tools array when the body has
\* none, adds a googleSearch entry when the array has none and leaves an
\* array that has one as it is, and a second call changes nothing; a Claude
\* request for which inject_google_search is true is sent with exactly one
\* googleSearch entry in its tools, also when its web_search tool was
\* already mapped to googleSearch.
C24_GoogleSearchOnce ==
    /\ injection.called =>
          /\ injection.twice = injection.once
          /\ (injection.body.is_object /\ injection.body.tools.kind = "absent") =>
                injection.once.tools = [kind |-> "array", items |-> <<"googleSearch">>]
          /\ (injection.body.is_object /\ injection.body.tools.kind = "array") =>
                /\ injection.once.tools.kind = "array"
                /\ SearchEntries(injection.body.tools.items) = 0 =>
                      /\ SearchEntries(injection.once.tools.items) = 1
                      /\ Len(injection.once.tools.items) = Len(injection.body.tools.items) + 1
                /\ SearchEntries(injection.body.tools.items) > 0 =>
                      injection.once = injection.body
    /\ (claude_tools.called /\ claude_tools.inject_google_search) =>
          /\ claude_tools.inner_request.tools.kind = "array"
          /\ SearchEntries(claude_tools.inner_request.tools.items) = 1

\* a Claude request with the web_search tool: search is on and the tools
\* hold the one mapped entry; and a body with function declarations only
\* got the entry, once
C24_Witness ==
    /\ claude_tools.called
    /\ claude_tools.tools = <<(<<"web_search", "get_weather">>)>>
    /\ claude_tools.inject_google_search
    /\ claude_tools.inner_request.tools.items = <<"googleSearch:enhancedContent">>
    /\ injection.called
    /\ injection.body.tools = [kind |-> "array", items |-> <<"functionDeclarations">>]
    /\ injection.twice.tools.items = <<"functionDeclarations", "googleSearch">>

\* C25: a tool_result whose tool_use_id is the id of a tool_use block
\* anywhere in the messages comes out as a functionResponse with the name
\* of that block, whichever of the two comes first; one without such a
\* block gets another name.
C25_ToolResultNamed ==
    built.called =>
        \A i \in 1..Len(built.contents) :
            \A k \in 1..Len(built.contents[i].parts) :
                LET p == built.contents[i].parts[k]
                    uses == {b \in UNION {{built.messages[a].content.blocks[j] :
                                              j \in 1..Len(built.messages[a].content.blocks)} :
                                          a \in 1..Len(built.messages)} :
                                b.type = "tool_use" /\ b.id = p.id}
                IN  (p.kind = "functionResponse" /\ uses # {}) =>
                        \E b \in uses : p.name = b.name

\* the parts of a content that are thoughts
Thoughts(parts) == {k \in 1..Len(parts) : parts[k].thought}

\* the thinking blocks of a message
ThinkingBlocks(msg) ==
    {j \in 1..Len(msg.content.blocks) : msg.content.blocks[j].type = "thinking"}

\* C26: with thinking enabled the part {text: "Thinking...", thought: true}
\* is put in front of a message exactly when the message is the last one,
\* comes from the assistant and has no thought part of its own; an earlier
\* assistant message never gets one, and with thinking disabled none does.
C26_ThinkingPrefill ==
    built.called =>
        \A i \in 1..Len(built.messages) :
            LET msg == built.messages[i]
                parts == built.contents[i].parts
                prefilled == Cardinality(Thoughts(parts)) > Cardinality(ThinkingBlocks(msg))
            IN  /\ prefilled <=>
                      /\ built.is_thinking_enabled
                      /\ i = Len(built.messages)
                      /\ msg.role = "assistant"
                      /\ ThinkingBlocks(msg) = {}
                /\ prefilled =>
                      parts[1] = [kind |-> "text", text |-> "Thinking...", thought |-> TRUE,
                                  name |-> "", id |-> ""]

\* two assistant messages without thoughts: the last one is pre-filled,
\* the earlier one is not
C26_Witness ==
    /\ built.called /\ built.is_thinking_enabled
    /\ Len(built.messages) = 2
    /\ built.messages[1].role = "assistant" /\ built.messages[2].role = "assistant"
    /\ built.messages[1].content = [is_string |-> TRUE, text |-> "Hello", blocks |-> <<>>]
    /\ built.messages[2].content = [is_string |-> TRUE, text |-> "Hello", blocks |-> <<>>]
    /\ Len(built.contents[1].parts) = 1
    /\ Len(built.contents[2].parts) = 2
    /\ built.contents[2].parts[1].thought

\* the number of images the calls of a request returned
RECURSIVE ReturnedCount(_, _)
ReturnedCount(tasks, i) ==
    IF i > Len(tasks) THEN 0
    ELSE Cardinality({j \in 1..Len(tasks[i].parts) : tasks[i].ok /\ tasks[i].parts[j] = "image"})
         + ReturnedCount(tasks, i + 1)

\* C27: an image request answers 200 with the images of the calls that
\* returned one, all of them and nothing else, whenever a call returned an
\* image, and with an error when none did, n = 0 included.
C27_ImagesPartialSuccess ==
    (img_pc = "done" /\ img_response.status \notin {400, 503}) =>
        IF ReturnedCount(img_tasks, 1) > 0
        THEN /\ img_response.status = 200
             /\ Len(img_response.data) = ReturnedCount(img_tasks, 1)
             /\ \A i \in 1..Len(img_tasks) : \A j \in 1..Len(img_tasks[i].parts) :
                    (img_tasks[i].ok /\ img_tasks[i].parts[j] = "image") =>
                        \E k \in 1..Len(img_response.data) :
                            /\ img_response.data[k].task = i
                            /\ img_response.data[k].part = j
        ELSE img_response.status \notin {0, 200} /\ img_response.data = <<>>

\* n = 3: two calls returned an image, one failed, data has two entries
C27_Witness ==
    /\ img_pc = "done"
    /\ img_req.n = 3
    /\ Len(img_tasks) = 3
    /\ img_tasks[1] = [done |-> TRUE, ok |-> TRUE, parts |-> <<"image">>]
    /\ img_tasks[2] = [done |-> TRUE, ok |-> FALSE, parts |-> <<>>]
    /\ img_tasks[3] = [done |-> TRUE, ok |-> TRUE, parts |-> <<"image">>]
    /\ img_response.status = 200
    /\ Len(img_response.data) = 2

\* C28: update_proxy replaces the configuration atomically: a build_client
\* that has read its configuration has the host and the port of one and the
\* same configuration, never the host of one and the port of another; a
\* build_client that started after an update_proxy returned has the
\* configuration of that update or of a later one; and this holds for a
\* build_client on the managed factory and on its clone alike.
C28_ProxyUpdateAtomic ==
    \A b \in 1..2 :
        build_pc[b] \in {"build", "built"} =>
            /\ build_cfg[b].host = build_cfg[b].port
            /\ build_cfg[b].host >= build_cfg[b].started

\* a build_client on the clone, started after the second update_proxy
\* returned, has the second configuration
C28_Witness ==
    /\ build_pc[2] = "built"
    /\ build_cfg[2] = [started |-> 2, host |-> 2, port |-> 2]
    /\ returned = 2

\* C29: every attempt of a request is sent with the model and the request
\* type of its first attempt, also when a reload rewrites the mapping
\* tables between two attempts.
C29_ConfigFixedPerRequest ==
    \A i \in 1..Len(route_sent) : route_sent[i] = route_sent[1]

\* C30: for a body without messages the chat-completions handler makes a
\* message list that begins with the system message of a non-empty
\* instructions and ends with the user message of a string input, also when
\* there are no instructions or they are empty.
C30_ResponsesShape ==
    (normalized.called /\ normalized.handler = "chat" /\ normalized.body.messages = <<>>) =>
        LET body == normalized.body
            has_instructions == body.instructions \notin {"<absent>", "<number>", ""}
            has_input == body.input \notin {"<absent>", "<number>"}
        IN  (has_instructions \/ has_input) =>
                /\ normalized.status = 200
                /\ has_instructions =>
                      normalized.messages[1] = [role |-> "system", content |-> body.instructions]
                /\ has_input =>
                      normalized.messages[Len(normalized.messages)]
                          = [role |-> "user", content |-> body.input]

\* C31: only the token QUOTA_EXHAUSTED short-circuits: in every dispatcher a
\* 429 whose body does not contain it (a message that merely mentions the
\* word quota, say) is retried on another attempt while attempts remain.
C31_QuotaLiteralOnly ==
    \A i \in 1..Len(log) :
        (IsCall(i) /\ log[i].outcome.status = 429
                   /\ ~contains_QUOTA_EXHAUSTED(log[i].outcome.body)
                   /\ log[i].attempt + 1 < max_attempts)
        => \/ pc # "done"
           \/ \E j \in (i + 1)..Len(log) :
                 log[j].type = "pick" /\ log[j].attempt = log[i].attempt + 1

\* C32: retry-delay strings are parsed to whole milliseconds: "1.5s" gives
\* 1500, "2s" 2000, "200ms" 200, "1500ms" 1500; "1h16m0.667s" gives a
\* positive value or is rejected; and a 429 whose hint is rejected is handled
\* as one without hint: no wait, and the loop goes on to its next attempt.
C32_RetryDelayParsing ==
    /\ duration.called =>
          /\ duration.duration_str = Str1_5s => duration.result = Some(1500)
          /\ duration.duration_str = Str2s => duration.result = Some(2000)
          /\ duration.duration_str = Str200ms => duration.result = Some(200)
          /\ duration.duration_str = Str1500ms => duration.result = Some(1500)
          /\ duration.duration_str = StrCompound =>
                (duration.result = None \/ duration.result[1] > 0)
    /\ \A i \in 1..Len(rc_calls) :
          (rc_calls[i].status = 429 /\ rc_calls[i].delay = None) =>
              /\ rc_calls[i].slept = NoSleep
              /\ i = Len(rc_calls) => (rc_pc = "loop" \/ ~rc_result[1].ok)

\* "1.5s" was parsed
C32_Witness ==
    /\ duration.called
    /\ duration.duration_str = Str1_5s
    /\ duration.result = Some(1500)

\* C36: in call_v1_internal_with_retry a 429 whose parsed delay is at most
\* 5000 ms is followed by a wait of delay + 200 ms and a next attempt with the
\* same account; a 429 with a longer or missing delay is followed by a next
\* attempt with another account; at most max_attempts upstream calls are
\* made and Ok is returned only with a 2xx response.
C36_ShortDelaySameAccount ==
    /\ \A i \in 1..Len(rc_calls) :
          rc_calls[i].status = 429 =>
              IF rc_calls[i].delay # None /\ rc_calls[i].delay[1] <= 5000
              THEN /\ rc_calls[i].slept = rc_calls[i].delay[1] + 200
                   /\ i < Len(rc_calls) => rc_calls[i + 1].account = rc_calls[i].account
              ELSE /\ rc_calls[i].slept = NoSleep
                   /\ i < Len(rc_calls) => rc_calls[i + 1].account # rc_calls[i].account
    /\ Len(rc_calls) <= rc_max
    /\ (rc_result # None /\ rc_result[1].ok) =>
          is_success(rc_calls[Len(rc_calls)].status)

\* C33: a response returned after the upstream call of the latest attempt
\* (success, pass-through error or all attempts failed) carries the header
\* X-Account-Email with the account of that attempt, in every handler.
C33_AccountEmailHeader ==
    \A i \in 1..Len(log) :
        (pc = "done" /\ IsCall(i) /\ log[i].attempt = attempt)
        => client.email = log[i].email

\* C34: forcing the end of a Claude stream is idempotent.  While message_stop
\* has not been sent, `data: [DONE]` (or emit_force_stop) emits events that
\* end in message_stop and records it; on a fresh state that is the one chunk
\* message_stop.  Forced again, nothing is emitted and the state stays as it
\* is.  The same is seen when the stream ends: emit_force_stop after the loop
\* adds nothing once message_stop was sent.
C34_ForceStopIdempotent ==
    /\ [](LET once == process_sse_line(OtherLine("done"), state)
              twice == process_sse_line(OtherLine("done"), once.state)
              again == emit_force_stop(once.state)
          IN  /\ ~state.message_stop_sent =>
                    /\ once.chunks # <<>>
                    /\ once.chunks[Len(once.chunks)] = "message_stop"
                    /\ once.state.message_stop_sent
              /\ state = StreamingState_new => once.chunks = <<"message_stop">>
              /\ twice = Emitted(<<>>, once.state)
              /\ again = Emitted(<<>>, once.state))
    /\ [][(claude_pc = "open" /\ claude_pc' = "closed") =>
            IF state.message_stop_sent
            THEN state' = state /\ claude_out' \in {claude_out, Append(claude_out, "Err")}
            ELSE /\ state'.message_stop_sent
                 /\ claude_out'[Len(claude_out')] = "message_stop"]_vars

\* [DONE] was the only line of the body: one chunk, and the end of the stream
\* added nothing
C34_Witness ==
    /\ claude_pc = "closed"
    /\ claude_lines = 1
    /\ claude_out = <<"message_stop">>
    /\ state.message_stop_sent

\* the items of a list that satisfy a test, in order
OutputItems(items) == SelectSeq(items, LAMBDA it : it.type \in OutputTypes)
ToolMessages(messages) == SelectSeq(messages, LAMBDA msg : msg.role = "tool")

\* the call items of the list that carry the call_id
CallsWith(items, call_id) ==
    {i \in 1..Len(items) :
        /\ items[i].type \in CallTypes
        /\ (IF items[i].call_id # "<absent>" THEN items[i].call_id ELSE items[i].id) = call_id}

\* the name the claim gives the call item
ClaimedName(item) ==
    IF item.type = "local_shell_call" THEN "shell"
    ELSE IF item.type = "web_search_call" THEN "google_search"
    ELSE IF item.name = "<absent>" THEN "unknown" ELSE item.name

\* C35: every function_call_output / custom_tool_call_output item becomes a
\* tool message named after the call item (function_call, local_shell_call:
\* shell, web_search_call: google_search) that has its call_id, whether that
\* item stands before or after it; shell is the name only when no call item
\* has the call_id.
C35_OutputNamedAfterCall ==
    codex.called =>
        LET outs == OutputItems(codex.input)
            tools == ToolMessages(codex.messages)
        IN  /\ Len(tools) = Len(outs)
            /\ \A k \in 1..Len(outs) :
                  outs[k].call_id # "<absent>" =>
                      LET origins == CallsWith(codex.input, outs[k].call_id)
                      IN  /\ tools[k].call_id = outs[k].call_id
                          /\ IF origins = {}
                             THEN tools[k].name = "shell"
                             ELSE \E i \in origins :
                                     tools[k].name = ClaimedName(codex.input[i])

\* an output item stands before the function_call it answers
C35_Witness ==
    /\ codex.called
    /\ Len(codex.input) = 2
    /\ codex.input[1].type = "function_call_output"
    /\ codex.input[1].call_id = "c2"
    /\ codex.input[2].type = "function_call"
    /\ codex.input[2].call_id = "c2"
    /\ codex.messages[1].name = "write_file"

\* the steps in the order the claim gives them
IsPrefix(p, q) == Len(p) <= Len(q) /\ SubSeq(q, 1, Len(p)) = p
StepsRun(step) == \E i \in 1..Len(save_trace) : save_trace[i] = step

C38_FailedSaveKeepsLive ==
    (save_pc = "done" /\ save_result # "ok") => live_config = live_before

\* C39: a back-off sleep happens only when another attempt follows it: after
\* a retryable error on the last attempt (index max_attempts - 1) the
\* dispatcher returns the all-attempts-failed response without sleeping.
C39_NoSleepAfterLastAttempt ==
    \A i \in 1..Len(log) :
        log[i].type = "sleep" => log[i].attempt + 1 < max_attempts

\* the newline-terminated lines of a byte sequence, in order (what follows
\* the last newline is no line)
RECURSIVE CompleteLines(_)
CompleteLines(bytes) ==
    LET at == {i \in 1..Len(bytes) : bytes[i] = "\n"}
    IN  IF at = {} THEN <<>>
        ELSE LET first == CHOOSE i \in at : \A j \in at : i <= j
             IN  <<SubSeq(bytes, 1, first - 1)>>
                    \o CompleteLines(SubSeq(bytes, first + 1, Len(bytes)))

\* every line of a list processed once, in order
RECURSIVE LineByLine(_, _, _)
LineByLine(which, lines, st) ==
    IF lines = <<>> THEN Emitted(<<>>, st)
    ELSE LET first == line_events(which, Head(lines), st)
             rest == LineByLine(which, Tail(lines), first.state)
         IN  Emitted(first.chunks \o rest.chunks, rest.state)

\* C40: what the Claude and the Gemini stream translator yield depends on
\* the concatenation of the upstream bytes only, not on the chunks they come
\* in: at every moment the output is that of processing, once each and in
\* order, the newline-terminated lines of the bytes received so far (so a line
\* split across chunks is processed once, as a whole, and every such line is
\* processed before the stream ends); at the end the Claude translator adds
\* its terminal events.
C40_ChunkingIndependent ==
    ck_pc \in {"open", "closed"} =>
        LET ref == LineByLine(ck_which, CompleteLines(ck_received), StreamingState_new)
        IN  IF ck_pc = "open"
            THEN ck_out = ref.chunks /\ ck_state = ref.state
            ELSE IF ck_which = "claude"
            THEN ck_out = ref.chunks \o emit_force_stop(ref.state).chunks
            ELSE ck_out = ref.chunks

\* a data line with a text part came in three chunks
C40_Witness ==
    /\ ck_which = "claude"
    /\ ck_pc = "open"
    /\ ck_chunks = 3
    /\ ck_received = <<"data:", " ", JsonTextPart, "\n">>
    /\ ck_out = <<"message_start", "content_block_start", "content_block_delta">>

====
